---- MODULE Spec2Model ----
(***************************************************************************)
(* Model of the recipe generation pipeline of the Recipe Alchemy Nourish   *)
(* backend: POST /api/recipes/generate (routes/recipes.js), the Gemini     *)
(* service (services/geminiService.js), the AI output validator            *)
(* (validators/aiRecipeSchema.js), the request validators and the          *)
(* authentication middleware.                                              *)
(*                                                                         *)
(* A request handler is an async function: it runs without interruption    *)
(* between two awaits (Node runs one callback at a time), so every action  *)
(* below is one such segment of one request ("run"), and several runs      *)
(* interleave at their awaits.                                             *)
(***************************************************************************)
EXTENDS Integers, Sequences, FiniteSets, TLC

(***************************************************************************)
(* Bounds of the model.                                                    *)
(***************************************************************************)
NumRuns == 2
MaxCount == 4

Runs == 1..NumRuns

\* the connections on which clients send the other requests of the API
NumCalls == 2

Calls == 1..NumCalls

(***************************************************************************)
(* Program constants.                                                      *)
(***************************************************************************)
\* a budget of three attempts
maxRetriesRaised == 2 + 1

maxRetries == 2

Undefined == [type |-> "undefined"]
NoUser == "<none>"

Min(a, b) == IF a < b THEN a ELSE b
\* the first MaxCount items of a log
Record(log, item) == IF Len(log) < MaxCount THEN Append(log, item) ELSE log

Bump(n) == Min(n + 1, MaxCount)

Has(o, k) == k \in DOMAIN o

(***************************************************************************)
(* Provider text.  A text is a sequence of tokens: the fence marker, a     *)
(* language tag, a newline, a space, a JSON document (one token per        *)
(* document) or a word of prose.                                           *)
(***************************************************************************)
\* the markdown code fence marker (three backquotes)
Fence == "<fence>"

Whitespace == {" ", "\n"}

RECURSIVE TrimStart(_)
TrimStart(t) ==
  IF t # <<>> /\ Head(t) \in Whitespace THEN TrimStart(Tail(t)) ELSE t

RECURSIVE TrimEnd(_)
TrimEnd(t) ==
  IF t # <<>> /\ t[Len(t)] \in Whitespace
  THEN TrimEnd(SubSeq(t, 1, Len(t) - 1)) ELSE t

Trim(t) == TrimEnd(TrimStart(t))

StartsWith(t, p) == Len(t) >= Len(p) /\ SubSeq(t, 1, Len(p)) = p

EndsWith(t, p) == Len(t) >= Len(p) /\ SubSeq(t, Len(t) - Len(p) + 1, Len(t)) = p

\* replace with a pattern anchored at the start: removes p when the text starts with it
ReplaceStart(t, p) == IF StartsWith(t, p) THEN SubSeq(t, Len(p) + 1, Len(t)) ELSE t

\* replace with a pattern anchored at the end: removes p when the text ends with it
ReplaceEnd(t, p) == IF EndsWith(t, p) THEN SubSeq(t, 1, Len(t) - Len(p)) ELSE t

\* an extraction that leaves the closing fence in place
StripFencesOpeningOnly(text) ==
  LET jsonText == Trim(text) IN
  IF StartsWith(jsonText, <<Fence, "json">>)
  THEN ReplaceStart(jsonText, <<Fence, "json", "\n">>)
  ELSE IF StartsWith(jsonText, <<Fence>>)
       THEN ReplaceStart(jsonText, <<Fence, "\n">>)
       ELSE jsonText

StripFences(text) ==
  LET jsonText == Trim(text) IN
  IF StartsWith(jsonText, <<Fence, "json">>)
  THEN ReplaceEnd(ReplaceStart(jsonText, <<Fence, "json", "\n">>), <<"\n", Fence>>)
  ELSE IF StartsWith(jsonText, <<Fence>>)
       THEN ReplaceEnd(ReplaceStart(jsonText, <<Fence, "\n">>), <<"\n", Fence>>)
       ELSE jsonText

(***************************************************************************)
(* JSON documents the provider can return and the values they parse to.    *)
(***************************************************************************)
ValidNutrition == [protein |-> "18g", carbs |-> "45g", fat |-> "12g", fiber |-> "8g"]

\* a well-formed recipe: optional keys left out, and two keys the provider was
\* not asked for (isGenerated false, a userId)
ValidRecipeFields ==
  [title |-> "Lentil Soup",
   description |-> "A warming red lentil soup.",
   prepTime |-> "10 min",
   cookTime |-> "25 min",
   servings |-> 4,
   calories |-> 350,
   difficulty |-> "Medium",
   nutrition |-> ValidNutrition,
   ingredients |-> << [amount |-> "2 cups", item |-> "red lentils", id |-> "i1"] >>,
   steps |-> << [number |-> 1, title |-> "Simmer", description |-> "Simmer the lentils."] >>,
   isGenerated |-> FALSE,
   userId |-> "mallory"]

\* the well-formed recipe with servings or calories at and beyond the limits
\* of the schema
ServingsDocuments ==
  [d \in {"{servings:0}", "{servings:1}", "{servings:100}", "{servings:101}"} |->
     CASE d = "{servings:0}" -> 0
       [] d = "{servings:1}" -> 1
       [] d = "{servings:100}" -> 100
       [] d = "{servings:101}" -> 101]

CaloriesDocuments ==
  [d \in {"{calories:-1}", "{calories:0}", "{calories:5000}", "{calories:5001}"} |->
     CASE d = "{calories:-1}" -> 0 - 1
       [] d = "{calories:0}" -> 0
       [] d = "{calories:5000}" -> 5000
       [] d = "{calories:5001}" -> 5001]

Documents ==
  {"{valid}", "{title only}", "null", "42"}
    \cup DOMAIN ServingsDocuments \cup DOMAIN CaloriesDocuments

DocValue(d) ==
  CASE d = "{valid}" -> [type |-> "object", fields |-> ValidRecipeFields]
    [] d \in DOMAIN ServingsDocuments ->
         [type |-> "object",
          fields |-> [ValidRecipeFields EXCEPT !.servings = ServingsDocuments[d]]]
    [] d \in DOMAIN CaloriesDocuments ->
         [type |-> "object",
          fields |-> [ValidRecipeFields EXCEPT !.calories = CaloriesDocuments[d]]]
    [] d = "{title only}" -> [type |-> "object", fields |-> [title |-> "Lentil Soup"]]
    [] d = "null" -> [type |-> "null"]
    [] d = "42" -> [type |-> "number"]

\* JSON.parse: one document, optionally surrounded by whitespace; anything
\* else is a SyntaxError
JSONParse(t) ==
  LET s == Trim(t) IN
  IF Len(s) = 1 /\ s[1] \in Documents
  THEN [ok |-> TRUE, value |-> DocValue(s[1])]
  ELSE [ok |-> FALSE, value |-> Undefined]

(***************************************************************************)
(* validators/aiRecipeSchema.js: the schema applied to the provider's      *)
(* output.  A schema is modelled by a pair: whether it accepts the value   *)
(* and the value it returns (unknown keys stripped, defaults filled in).   *)
(* Every key of the modelled documents has the JSON type the schema asks   *)
(* for, so the checks below are the presence, length, range and enum       *)
(* checks.                                                                 *)
(***************************************************************************)
Pick(o, keys) == [k \in (DOMAIN o) \cap keys |-> o[k]]

NonEmptyString(o, k) == Has(o, k) /\ Len(o[k]) >= 1

NutritionKeys ==
  {"protein", "carbs", "fat", "fiber", "sodium", "sugar", "saturatedFat", "cholesterol"}

nutritionSchemaAccepts(n) ==
  \A k \in {"protein", "carbs", "fat", "fiber"} : NonEmptyString(n, k)

nutritionSchemaParse(n) ==
  Pick(n, NutritionKeys) @@ [sodium |-> "0mg", sugar |-> "0g"]

ingredientSchemaAccepts(i) == NonEmptyString(i, "amount") /\ NonEmptyString(i, "item")

ingredientSchemaParse(i) == Pick(i, {"amount", "item", "id"})

recipeStepSchemaAccepts(st) ==
  /\ Has(st, "number") /\ st.number > 0
  /\ NonEmptyString(st, "title")
  /\ NonEmptyString(st, "description")

recipeStepSchemaParse(st) ==
  Pick(st, {"number", "title", "description", "tip", "duration", "imageUrl"})

shoppingCategorySchemaAccepts(c) ==
  NonEmptyString(c, "category") /\ Has(c, "items") /\ Len(c.items) >= 1

shoppingCategorySchemaParse(c) == Pick(c, {"category", "items"})

Difficulties == {"Easy", "Medium", "Hard"}

AIRecipeKeys ==
  {"title", "subtitle", "description", "prepTime", "cookTime", "servings",
   "calories", "difficulty", "tags", "cuisine", "imageUrl", "nutrition",
   "ingredients", "dressingIngredients", "steps", "shoppingList", "youtubeId",
   "videoUrl", "isGenerated"}

\* the defaults without the one of cuisine
AIRecipeDefaultsNoCuisine ==
  [subtitle |-> "", tags |-> <<>>, imageUrl |-> "",
   dressingIngredients |-> <<>>, shoppingList |-> <<>>, youtubeId |-> "",
   videoUrl |-> "", isGenerated |-> TRUE]

AIRecipeDefaults ==
  [subtitle |-> "", tags |-> <<>>, cuisine |-> "International", imageUrl |-> "",
   dressingIngredients |-> <<>>, shoppingList |-> <<>>, youtubeId |-> "",
   videoUrl |-> "", isGenerated |-> TRUE]

\* a lower bound of 0 on servings
ServingsInRangeFromZero(n) == n >= 0 /\ n <= 100

ServingsInRange(n) == n >= 1 /\ n <= 100

\* calories without the upper bound
CaloriesInRangeUnbounded(n) == n >= 0

CaloriesInRange(n) == n >= 0 /\ n <= 5000

aiRecipeSchemaAccepts(data) ==
  /\ data.type = "object"
  /\ LET o == data.fields IN
     /\ Has(o, "title") /\ Len(o.title) >= 3 /\ Len(o.title) <= 200
     /\ Has(o, "description") /\ Len(o.description) >= 10 /\ Len(o.description) <= 2000
     /\ NonEmptyString(o, "prepTime")
     /\ NonEmptyString(o, "cookTime")
     /\ Has(o, "servings") /\ ServingsInRange(o.servings)
     /\ Has(o, "calories") /\ CaloriesInRange(o.calories)
     /\ Has(o, "difficulty") /\ o.difficulty \in Difficulties
     /\ Has(o, "nutrition") /\ nutritionSchemaAccepts(o.nutrition)
     /\ Has(o, "ingredients") /\ Len(o.ingredients) >= 1
     /\ \A i \in DOMAIN o.ingredients : ingredientSchemaAccepts(o.ingredients[i])
     /\ Has(o, "dressingIngredients") =>
          \A i \in DOMAIN o.dressingIngredients :
             ingredientSchemaAccepts(o.dressingIngredients[i])
     /\ Has(o, "steps") /\ Len(o.steps) >= 1
     /\ \A i \in DOMAIN o.steps : recipeStepSchemaAccepts(o.steps[i])
     /\ Has(o, "shoppingList") =>
          \A i \in DOMAIN o.shoppingList :
             shoppingCategorySchemaAccepts(o.shoppingList[i])

aiRecipeSchemaParse(data) ==
  LET o == data.fields
      nested ==
        [nutrition |-> nutritionSchemaParse(o.nutrition),
         ingredients |-> [i \in DOMAIN o.ingredients |->
                            ingredientSchemaParse(o.ingredients[i])],
         steps |-> [i \in DOMAIN o.steps |-> recipeStepSchemaParse(o.steps[i])]]
      dressing ==
        IF Has(o, "dressingIngredients")
        THEN [dressingIngredients |->
                [i \in DOMAIN o.dressingIngredients |->
                   ingredientSchemaParse(o.dressingIngredients[i])]]
        ELSE <<>>
      shopping ==
        IF Has(o, "shoppingList")
        THEN [shoppingList |->
                [i \in DOMAIN o.shoppingList |->
                   shoppingCategorySchemaParse(o.shoppingList[i])]]
        ELSE <<>>
  IN nested @@ dressing @@ shopping @@ Pick(o, AIRecipeKeys) @@ AIRecipeDefaults

\* validateAIRecipe: returns the parsed artifact or throws a ZodError
validateAIRecipe(data) ==
  IF aiRecipeSchemaAccepts(data)
  THEN [ok |-> TRUE, value |-> aiRecipeSchemaParse(data)]
  ELSE [ok |-> FALSE, value |-> Undefined]

(***************************************************************************)
(* validators/schemas.js: createRecipeSchema, applied by the validate      *)
(* middleware to the body of POST /api/recipes.  The file declares its own *)
(* nutrition, ingredient, step and shopping schemas under the names        *)
(* aiRecipeSchema.js uses; they carry the prefix "create" here.            *)
(***************************************************************************)
\* the strings of the modelled candidates that z.string().url() accepts
Urls == {"https://img.example/soup.jpg"}

IsUrl(s) == s \in Urls

\* String.prototype.trim on the strings of the modelled candidates
TrimString(s) ==
  CASE s = " Lentil Soup " -> "Lentil Soup"
    [] s = " hearty " -> "hearty"
    [] OTHER -> s

\* a URL check that does not admit the empty string
OptionalUrlStrict(o, k) == Has(o, k) => IsUrl(o[k])

\* z.string().url().optional().or(z.literal(''))
OptionalUrl(o, k) == Has(o, k) => (IsUrl(o[k]) \/ o[k] = "")

createNutritionSchemaAccepts(n) ==
  \A k \in {"protein", "carbs", "fat", "fiber"} : NonEmptyString(n, k)

createNutritionSchemaParse(n) == Pick(n, NutritionKeys)

createIngredientSchemaAccepts(i) ==
  NonEmptyString(i, "amount") /\ NonEmptyString(i, "item")

createIngredientSchemaParse(i) == Pick(i, {"amount", "item", "id"})

createRecipeStepSchemaAccepts(st) ==
  /\ Has(st, "number") /\ st.number > 0
  /\ NonEmptyString(st, "title")
  /\ NonEmptyString(st, "description")
  /\ OptionalUrl(st, "imageUrl")

createRecipeStepSchemaParse(st) ==
  Pick(st, {"number", "title", "description", "tip", "duration", "imageUrl"})

createShoppingCategorySchemaAccepts(c) ==
  NonEmptyString(c, "category") /\ Has(c, "items") /\ Len(c.items) >= 1

createShoppingCategorySchemaParse(c) == Pick(c, {"category", "items"})

CreateRecipeKeys == AIRecipeKeys \cup {"generationParams"}

CreateRecipeDefaults == [tags |-> <<>>, shoppingList |-> <<>>, isGenerated |-> FALSE]

\* the length checks of title come before its trim, so they see the
\* untrimmed string
createRecipeSchemaAccepts(data) ==
  /\ data.type = "object"
  /\ LET o == data.fields IN
     /\ Has(o, "title") /\ Len(o.title) >= 3 /\ Len(o.title) <= 200
     /\ Has(o, "description") /\ Len(o.description) >= 10 /\ Len(o.description) <= 2000
     /\ NonEmptyString(o, "prepTime")
     /\ NonEmptyString(o, "cookTime")
     /\ Has(o, "servings") /\ o.servings >= 1 /\ o.servings <= 100
     /\ Has(o, "calories") /\ o.calories >= 0 /\ o.calories <= 5000
     /\ Has(o, "difficulty") /\ o.difficulty \in Difficulties
     /\ OptionalUrl(o, "imageUrl")
     /\ Has(o, "nutrition") /\ createNutritionSchemaAccepts(o.nutrition)
     /\ Has(o, "ingredients") /\ Len(o.ingredients) >= 1
     /\ \A i \in DOMAIN o.ingredients : createIngredientSchemaAccepts(o.ingredients[i])
     /\ Has(o, "dressingIngredients") =>
          \A i \in DOMAIN o.dressingIngredients :
             createIngredientSchemaAccepts(o.dressingIngredients[i])
     /\ Has(o, "steps") /\ Len(o.steps) >= 1
     /\ \A i \in DOMAIN o.steps : createRecipeStepSchemaAccepts(o.steps[i])
     /\ Has(o, "shoppingList") =>
          \A i \in DOMAIN o.shoppingList :
             createShoppingCategorySchemaAccepts(o.shoppingList[i])
     /\ OptionalUrl(o, "videoUrl")

createRecipeSchemaParse(data) ==
  LET o == data.fields
      nested ==
        [title |-> TrimString(o.title),
         nutrition |-> createNutritionSchemaParse(o.nutrition),
         ingredients |-> [i \in DOMAIN o.ingredients |->
                            createIngredientSchemaParse(o.ingredients[i])],
         steps |-> [i \in DOMAIN o.steps |-> createRecipeStepSchemaParse(o.steps[i])]]
      subtitle ==
        IF Has(o, "subtitle") THEN [subtitle |-> TrimString(o.subtitle)] ELSE <<>>
      dressing ==
        IF Has(o, "dressingIngredients")
        THEN [dressingIngredients |->
                [i \in DOMAIN o.dressingIngredients |->
                   createIngredientSchemaParse(o.dressingIngredients[i])]]
        ELSE <<>>
      shopping ==
        IF Has(o, "shoppingList")
        THEN [shoppingList |->
                [i \in DOMAIN o.shoppingList |->
                   createShoppingCategorySchemaParse(o.shoppingList[i])]]
        ELSE <<>>
  IN nested @@ subtitle @@ dressing @@ shopping @@ Pick(o, CreateRecipeKeys)
       @@ CreateRecipeDefaults

(***************************************************************************)
(* validators/schemas.js: recipeGenerationSchema, applied to the request   *)
(* body by the validate middleware.                                        *)
(***************************************************************************)
GenerationKeys ==
  {"dietaryPreferences", "allergies", "nutritionalFocus", "cuisineType",
   "maxPrepTime", "maxCookTime", "maxCalories", "servings", "difficulty",
   "availableIngredients", "excludeIngredients", "mealType"}

MealTypes == {"Breakfast", "Lunch", "Dinner", "Snack", "Dessert"}

recipeGenerationSchemaAccepts(b) ==
  /\ Has(b, "maxPrepTime") => b.maxPrepTime > 0
  /\ Has(b, "maxCookTime") => b.maxCookTime > 0
  /\ Has(b, "maxCalories") => (b.maxCalories > 0 /\ b.maxCalories <= 5000)
  /\ Has(b, "servings") => (b.servings >= 1 /\ b.servings <= 20)
  /\ Has(b, "difficulty") => b.difficulty \in Difficulties
  /\ Has(b, "mealType") => b.mealType \in MealTypes

recipeGenerationSchemaParse(b) ==
  Pick(b, GenerationKeys) @@ [dietaryPreferences |-> <<>>, allergies |-> <<>>]

\* the validate middleware for one of the two schemas: req.body becomes the
\* parsed value, or the request is answered 400 VALIDATION_ERROR
validate(schema, body) ==
  LET accepts == IF schema = "createRecipeSchema"
                 THEN createRecipeSchemaAccepts(body)
                 ELSE recipeGenerationSchemaAccepts(body)
  IN IF accepts
     THEN [ok |-> TRUE,
           value |-> IF schema = "createRecipeSchema"
                     THEN createRecipeSchemaParse(body)
                     ELSE recipeGenerationSchemaParse(body)]
     ELSE [ok |-> FALSE, value |-> Undefined]

(***************************************************************************)
(* Requests.  A request carries an Authorization header (or none) and a    *)
(* JSON body.                                                              *)
(***************************************************************************)
NoHeader == [scheme |-> "", token |-> ""]

\* the ID tokens Firebase accepts, and the uid each one decodes to
DecodedUid(token) == IF token = "token-alice" THEN "alice" ELSE NoUser

Headers ==
  {NoHeader,
   [scheme |-> "Bearer ", token |-> "expired"],
   [scheme |-> "Bearer ", token |-> "token-alice"]}

Bodies ==
  {[allergies |-> <<"Peanuts">>, servings |-> 4, difficulty |-> "Medium"],
   [servings |-> 21]}

\* the requests a run starts with: every header with a well-formed body, and
\* the accepted header with every body
Requests ==
  {q \in [authorization : Headers, body : Bodies] :
      \/ recipeGenerationSchemaAccepts(q.body)
      \/ DecodedUid(q.authorization.token) # NoUser /\ q.authorization.scheme = "Bearer "}

NoRequest == [authorization |-> NoHeader, body |-> <<>>]

(***************************************************************************)
(* Errors carry a message, a sequence of words; includes() looks for a     *)
(* contiguous run of words.                                                *)
(***************************************************************************)
Includes(msg, needle) ==
  \E i \in 1..(Len(msg) + 1) :
     i + Len(needle) - 1 <= Len(msg) /\ SubSeq(msg, i, i + Len(needle) - 1) = needle

ConfigErrorMessage == <<"GEMINI_API_KEY", "environment", "variable", "is", "required">>

InvalidJSONMessage == <<"AI", "returned", "invalid", "JSON", "format">>

ProviderErrorMessage == <<"Recipe", "generation", "failed:", "fetch", "failed">>

MongoErrorMessage == <<"Recipe", "validation", "failed">>

Response(status, code) == [status |-> status, code |-> code, recipe |-> Undefined]

\* an outer catch that reports every error as an invalid AI response
OuterCatchResponseInvalid(message) == Response(500, "AI_INVALID_RESPONSE")

\* the outer catch of the generate handler: the response for a caught error
OuterCatchResponse(message) ==
  IF Includes(message, <<"GEMINI_API_KEY">>)
  THEN Response(503, "AI_SERVICE_UNAVAILABLE")
  ELSE IF Includes(message, <<"AI", "returned", "invalid", "JSON">>)
       THEN Response(500, "AI_INVALID_RESPONSE")
       ELSE Response(500, "GENERATION_ERROR")

(***************************************************************************)
(* services/geminiService.js: buildRecipePrompt.  A prompt is a sequence   *)
(* of lines, a line a sequence of pieces of text: the fixed text of the    *)
(* template and the interpolated values, numbers in decimal.               *)
(***************************************************************************)
Get(o, k, default) == IF Has(o, k) THEN o[k] ELSE default

RECURSIVE Join(_)
\* list.join(", ")
Join(list) ==
  IF Len(list) = 0 THEN <<>>
  ELSE IF Len(list) = 1 THEN <<list[1]>>
       ELSE <<list[1], ", ">> \o Join(Tail(list))

\* constraints.push(...) under its if: one line, or none
ListConstraint(label, list) ==
  IF Len(list) > 0 THEN << <<label>> \o Join(list) >> ELSE <<>>

TextConstraint(label, text) ==
  IF text # "" THEN << <<label, text>> >> ELSE <<>>

MinutesConstraint(label, o, k) ==
  IF Has(o, k) /\ o[k] # 0 THEN << <<label, ToString(o[k]), " minutes">> >> ELSE <<>>

NumberConstraint(label, o, k) ==
  IF Has(o, k) /\ o[k] # 0 THEN << <<label, ToString(o[k])>> >> ELSE <<>>

\* an allergy line that names the first allergy only
AllergyConstraintFirstOnly(allergies) ==
  IF Len(allergies) > 0
  THEN << <<"STRICT ALLERGIES (must avoid): ", allergies[1]>> >>
  ELSE <<>>

AllergyConstraint(allergies) ==
  ListConstraint("STRICT ALLERGIES (must avoid): ", allergies)

Constraints(p) ==
  ListConstraint("Dietary preferences: ", Get(p, "dietaryPreferences", <<>>))
    \o AllergyConstraint(Get(p, "allergies", <<>>))
    \o TextConstraint("Nutritional focus: ", Get(p, "nutritionalFocus", ""))
    \o TextConstraint("Cuisine type: ", Get(p, "cuisineType", ""))
    \o MinutesConstraint("Maximum prep time: ", p, "maxPrepTime")
    \o MinutesConstraint("Maximum cook time: ", p, "maxCookTime")
    \o NumberConstraint("Maximum calories per serving: ", p, "maxCalories")
    \o ListConstraint("Prefer using these ingredients: ", Get(p, "availableIngredients", <<>>))
    \o ListConstraint("Must NOT use: ", Get(p, "excludeIngredients", <<>>))

\* the fixed lines of the template from CRITICAL RULES to "cookTime"
PromptRules ==
  << <<>>,
     <<"CRITICAL RULES:">>,
     <<"1. Create an ORIGINAL recipe, not a copy of existing recipes">>,
     <<"2. Ensure all ingredients are safe and realistic">>,
     <<"3. Respect ALL dietary restrictions and allergies">>,
     <<"4. Provide accurate nutritional information">>,
     <<"5. Include practical cooking instructions">>,
     <<"6. Time estimates must be realistic">>,
     <<>>,
     <<"OUTPUT FORMAT:">>,
     <<"Return ONLY valid JSON matching this EXACT structure (no markdown, no explanations):">>,
     <<>>,
     <<"{">>,
     <<"  \"title\": \"Creative Recipe Name\",">>,
     <<"  \"subtitle\": \"Brief catchy description\",">>,
     <<"  \"description\": \"Detailed 2-3 sentence description highlighting key flavors and appeal\",">>,
     <<"  \"prepTime\": \"XX min\",">>,
     <<"  \"cookTime\": \"XX min\",">> >>

\* the fixed lines of the template after "cuisine"
PromptTail ==
  << <<"  \"imageUrl\": \"\",">>,
     <<"  \"nutrition\": {">>,
     <<"    \"protein\": \"XXg\",">>,
     <<"    \"carbs\": \"XXg\",">>,
     <<"    \"fat\": \"XXg\",">>,
     <<"    \"fiber\": \"XXg\",">>,
     <<"    \"sodium\": \"XXXmg\",">>,
     <<"    \"sugar\": \"XXg\"">>,
     <<"  },">>,
     <<"  \"ingredients\": [">>,
     <<"    { \"amount\": \"1 cup\", \"item\": \"ingredient name\" }">>,
     <<"  ],">>,
     <<"  \"dressingIngredients\": [],">>,
     <<"  \"steps\": [">>,
     <<"    {">>,
     <<"      \"number\": 1,">>,
     <<"      \"title\": \"Step Title\",">>,
     <<"      \"description\": \"Detailed instructions for this step\",">>,
     <<"      \"tip\": \"Optional helpful tip\",">>,
     <<"      \"duration\": \"X min\"">>,
     <<"    }">>,
     <<"  ],">>,
     <<"  \"shoppingList\": [">>,
     <<"    {">>,
     <<"      \"category\": \"Produce\",">>,
     <<"      \"items\": [\"item1\", \"item2\"]">>,
     <<"    },">>,
     <<"    {">>,
     <<"      \"category\": \"Protein\",">>,
     <<"      \"items\": [\"item1\"]">>,
     <<"    },">>,
     <<"    {">>,
     <<"      \"category\": \"Pantry\",">>,
     <<"      \"items\": [\"item1\", \"item2\"]">>,
     <<"    }">>,
     <<"  ],">>,
     <<"  \"youtubeId\": \"\",">>,
     <<"  \"videoUrl\": \"\",">>,
     <<"  \"isGenerated\": true">>,
     <<"}">>,
     <<>>,
     <<"Generate the recipe now:">> >>

buildRecipePrompt(params) ==
  LET servings == ToString(Get(params, "servings", 4))
      difficulty == Get(params, "difficulty", "Medium")
      mealType == Get(params, "mealType", "")
      cuisineType == Get(params, "cuisineType", "")
      constraints == Constraints(params)
  IN << <<"You are a professional chef and certified nutritionist. Generate an ORIGINAL, creative, and realistic recipe.">>,
        <<>>,
        <<"REQUIREMENTS:">>,
        <<"- Servings: ", servings>>,
        <<"- Difficulty level: ", difficulty>>,
        IF mealType # "" THEN <<"- Meal type: ", mealType>> ELSE <<>> >>
       \o (IF constraints = <<>> THEN << <<>> >>
           ELSE [i \in DOMAIN constraints |-> <<"- ">> \o constraints[i]])
       \o PromptRules
       \o << <<"  \"servings\": ", servings, ",">>,
             <<"  \"calories\": number (per serving),">>,
             <<"  \"difficulty\": \"", difficulty, "\",">>,
             <<"  \"tags\": [\"tag1\", \"tag2\", \"tag3\"],">>,
             <<"  \"cuisine\": \"", IF cuisineType # "" THEN cuisineType ELSE "International",
               "\",">> >>
       \o PromptTail

(***************************************************************************)
(* What the provider can answer to generateContent: a rejection            *)
(* (transport, quota) or a text.                                           *)
(***************************************************************************)
ProviderTexts ==
  {<<"{valid}">>,
   <<Fence, "json", "\n", "{valid}", "\n", Fence>>,
   <<" ", Fence, "\n", "{valid}", "\n", Fence, "\n">>,
   <<Fence, "js", "\n", "{valid}", "\n", Fence>>,
   <<"not", " ", "json", " ", "at", " ", "all">>,
   <<"{servings:0}">>,
   <<"{title only}">>,
   <<"null">>}

ProviderOutcomes ==
  {[ok |-> FALSE, text |-> <<>>]} \cup {[ok |-> TRUE, text |-> t] : t \in ProviderTexts}

\* a catch block without the SyntaxError case
generateRecipeResultGeneric(outcome) ==
  IF ~outcome.ok
  THEN [threw |-> TRUE, message |-> ProviderErrorMessage, value |-> Undefined]
  ELSE LET parsed == JSONParse(StripFences(outcome.text)) IN
       IF parsed.ok
       THEN [threw |-> FALSE, message |-> <<>>, value |-> parsed.value]
       ELSE [threw |-> TRUE,
             message |-> <<"Recipe", "generation", "failed:", "Unexpected", "token">>,
             value |-> Undefined]

\* generateRecipe after generateContent has settled: the parsed value, or
\* the error it throws
generateRecipeResult(outcome) ==
  IF ~outcome.ok
  THEN [threw |-> TRUE, message |-> ProviderErrorMessage, value |-> Undefined]
  ELSE LET parsed == JSONParse(StripFences(outcome.text)) IN
       IF parsed.ok
       THEN [threw |-> FALSE, message |-> <<>>, value |-> parsed.value]
       ELSE [threw |-> TRUE, message |-> InvalidJSONMessage, value |-> Undefined]

(***************************************************************************)
(* models/Recipe.js: what Mongoose requires of a document on create.       *)
(***************************************************************************)
RecipeModelAccepts(doc) ==
  /\ \A k \in {"title", "description", "prepTime", "cookTime", "servings",
               "calories", "difficulty"} : Has(doc, k)
  /\ Len(doc.title) >= 3 /\ Len(doc.title) <= 200
  /\ Len(doc.description) >= 10 /\ Len(doc.description) <= 2000
  /\ doc.servings >= 1 /\ doc.servings <= 100
  /\ doc.calories >= 0 /\ doc.calories <= 5000
  /\ doc.difficulty \in Difficulties

(***************************************************************************)
(* State.                                                                  *)
(*   server       where the process is: starting, connecting to the        *)
(*                database, listening, or exited                           *)
(*   lab          the call under test when a single function is exercised  *)
(*                on its own (see FunctionSpec); unused by the server      *)
(*   saved        the SavedRecipe collection, one entry per position; a    *)
(*                deleted entry leaves a tombstone                         *)
(*   calls        per connection, the request of the recipes or saved      *)
(*                recipes API being handled on it                          *)
(*   apiKey       whether process.env.GEMINI_API_KEY is set                *)
(*   genAI, model the module-level client and model handle of the Gemini   *)
(*                service (0 is null, n > 0 the n-th object constructed)   *)
(*   store        the Recipe collection                                    *)
(*   pc           where each run is suspended                             *)
(*   request      the request as received                                  *)
(*   user, params req.user.uid and req.body as the middlewares set them    *)
(*   retryCount, aiRecipeData, recipeData   the handler's locals           *)
(*   responses    the responses sent on res                                *)
(*   cancelled    whether the client has aborted the request               *)
(* and, for the properties only:                                           *)
(*   constructs   how many clients were constructed                        *)
(*   returned     the handles initializeGemini has returned                *)
(*   obs          per run: calls of generateRecipe, of generateContent,    *)
(*                of Recipe.create, retry delays started, calls of         *)
(*                generateRecipe made after the abort, and the artifacts   *)
(*                validateAIRecipe returned                                *)
(***************************************************************************)
VARIABLES server, lab, apiKey, genAI, model, constructs, returned, store, saved, calls,
          pc, request, user, params, retryCount, aiRecipeData, recipeData,
          responses, cancelled, obs

gemini == <<genAI, model, constructs, returned>>

api == <<saved, calls>>

vars == <<server, lab, apiKey, genAI, model, constructs, returned, store, saved, calls,
          pc, request, user, params, retryCount, aiRecipeData, recipeData,
          responses, cancelled, obs>>

NoObs ==
  [sent |-> <<>>, genCalls |-> 0, providerCalls |-> 0, createCalls |-> 0, delays |-> 0,
   callsAfterCancel |-> 0, validated |-> {}]

NoLab == [fn |-> "none"]

\* a connection with no request on it
NoCall ==
  [op |-> "none", pc |-> "idle", uid |-> NoUser, id |-> 0, body |-> <<>>,
   found |-> Undefined, response |-> Undefined]

Init ==
  /\ server = "starting"
  /\ lab = NoLab
  /\ apiKey \in BOOLEAN
  /\ genAI = 0
  /\ model = 0
  /\ constructs = 0
  /\ returned = {}
  /\ store = <<>>
  /\ pc = [r \in Runs |-> "idle"]
  /\ request = [r \in Runs |-> NoRequest]
  /\ user = [r \in Runs |-> NoUser]
  /\ params = [r \in Runs |-> <<>>]
  /\ retryCount = [r \in Runs |-> 0]
  /\ aiRecipeData = [r \in Runs |-> Undefined]
  /\ recipeData = [r \in Runs |-> Undefined]
  /\ responses = [r \in Runs |-> <<>>]
  /\ cancelled = [r \in Runs |-> FALSE]
  /\ obs = [r \in Runs |-> NoObs]
  /\ saved = <<>>
  /\ calls = [c \in Calls |-> NoCall]

(***************************************************************************)
(* services/geminiService.js: initializeGemini, past the API key check.    *)
(***************************************************************************)
\* a client constructed on every call
NeedsClientAlways(g) == TRUE

NeedsClient(g) == g = 0

\* the generationConfig given to getGenerativeModel; the fractions as written
generationConfig ==
  [temperature |-> "0.7", topK |-> 40, topP |-> "0.95", maxOutputTokens |-> 8192]

\* genAI.getGenerativeModel({ model, generationConfig }): the handle and the
\* configuration its generateContent calls run with
getGenerativeModel(handle) == [handle |-> handle, generationConfig |-> generationConfig]

InitializeGemini ==
  /\ IF NeedsClient(genAI)
     THEN /\ genAI' = constructs + 1
          /\ model' = constructs + 1
          /\ constructs' = Bump(constructs)
     ELSE UNCHANGED <<genAI, model, constructs>>
  /\ returned' = returned \cup {model'}

(***************************************************************************)
(* routes/recipes.js, POST /generate: the pieces of the handler.           *)
(***************************************************************************)
\* a catch block that does not count the failure
IncrementRetryCountNone(rcs, r) == rcs

\* a retry counter shared by all runs
IncrementRetryCountShared(rcs, r) == [s \in DOMAIN rcs |-> rcs[s] + 1]

\* retryCount++ in the catch block; retryCount is a local of the handler call
IncrementRetryCount(rcs, r) == [rcs EXCEPT ![r] = @ + 1]

\* a catch block that reports every failed attempt
CatchResponseAlways(rc) == << Response(500, "AI_VALIDATION_FAILED") >>

\* the catch block, after retryCount++: what it sends
CatchResponse(rc) ==
  IF rc >= maxRetries THEN << Response(500, "AI_VALIDATION_FAILED") >> ELSE <<>>

\* a catch block that waits after every failed attempt
CatchNextAlwaysDelay(rc) == "delay"

\* the catch block, after retryCount++: return, or wait before the next attempt
CatchNext(rc) == IF rc >= maxRetries THEN "done" ELSE "delay"

Catch(r, o) ==
  LET rcs == IncrementRetryCount(retryCount, r)
      next == CatchNext(rcs[r])
  IN /\ retryCount' = rcs
     /\ responses' = [responses EXCEPT ![r] = @ \o CatchResponse(rcs[r])]
     /\ pc' = [pc EXCEPT ![r] = next]
     /\ obs' = [obs EXCEPT ![r] =
                  [o EXCEPT !.delays = IF next = "delay" THEN Bump(@) ELSE @]]
     /\ UNCHANGED <<aiRecipeData, recipeData, store>>

\* a spread in the other order: the keys of the candidate win
RecipeDataCandidateLast(ai, uid, prm) ==
  (IF ai = Undefined THEN <<>> ELSE ai)
    @@ [userId |-> uid, isGenerated |-> TRUE, generationParams |-> prm]

\* { ...aiRecipeData, userId, isGenerated: true, generationParams: params }
RecipeData(ai, uid, prm) ==
  [userId |-> uid, isGenerated |-> TRUE, generationParams |-> prm]
    @@ (IF ai = Undefined THEN <<>> ELSE ai)

\* a handler that validates the candidate without assigning it
CallCreateUnassigned(r, ai, prm, o) ==
  /\ aiRecipeData' = aiRecipeData
  /\ recipeData' = [recipeData EXCEPT ![r] = RecipeData(aiRecipeData[r], user[r], prm)]
  /\ pc' = [pc EXCEPT ![r] = "create"]
  /\ obs' = [obs EXCEPT ![r] = [o EXCEPT !.createCalls = Bump(@)]]
  /\ UNCHANGED <<retryCount, responses, store>>

\* past the loop: build recipeData and call Recipe.create
CallCreate(r, ai, prm, o) ==
  /\ aiRecipeData' = [aiRecipeData EXCEPT ![r] = ai]
  /\ recipeData' = [recipeData EXCEPT ![r] = RecipeData(ai, user[r], prm)]
  /\ pc' = [pc EXCEPT ![r] = "create"]
  /\ obs' = [obs EXCEPT ![r] = [o EXCEPT !.createCalls = Bump(@)]]
  /\ UNCHANGED <<retryCount, responses, store>>

\* the prompts run r has passed to generateContent: generateRecipe builds
\* each from the params it was called with
PromptsSent(r) == [i \in DOMAIN obs[r].sent |-> buildRecipePrompt(obs[r].sent[i])]

\* the while test and, inside the loop, the call of generateRecipe up to
\* its first await; a missing API key makes initializeGemini throw, and the
\* rejected promise takes the handler straight to its catch block
EnterLoop(r, prm) ==
  IF retryCount[r] < maxRetries
  THEN LET o == [obs[r] EXCEPT !.genCalls = Bump(@),
                                !.callsAfterCancel = IF cancelled[r] THEN Bump(@) ELSE @]
       IN IF ~apiKey
          THEN /\ Catch(r, o)
               /\ UNCHANGED gemini
          ELSE /\ InitializeGemini
               /\ pc' = [pc EXCEPT ![r] = "generateContent"]
               /\ obs' = [obs EXCEPT ![r] =
                            [o EXCEPT !.providerCalls = Bump(@),
                                      !.sent = Record(@, prm)]]
               /\ UNCHANGED <<retryCount, aiRecipeData, recipeData, responses, store>>
  ELSE /\ CallCreate(r, aiRecipeData[r], prm, obs[r])
       /\ UNCHANGED gemini

(***************************************************************************)
(* Actions.                                                                *)
(***************************************************************************)
\* a client sends POST /api/recipes/generate
Request(r, q) ==
  /\ server = "listening"
  /\ pc[r] = "idle"
  /\ request' = [request EXCEPT ![r] = q]
  /\ pc' = [pc EXCEPT ![r] = "authenticate"]
  /\ UNCHANGED <<api, server, lab, apiKey, gemini, store, user, params, retryCount, aiRecipeData,
                 recipeData, responses, cancelled, obs>>

\* authenticate, up to the await of verifyToken
Authenticate(r) ==
  /\ pc[r] = "authenticate"
  /\ IF request[r].authorization.scheme # "Bearer "
     THEN /\ responses' = [responses EXCEPT ![r] = Append(@, Response(401, "MISSING_TOKEN"))]
          /\ pc' = [pc EXCEPT ![r] = "done"]
     ELSE /\ pc' = [pc EXCEPT ![r] = "verifyToken"]
          /\ UNCHANGED responses
  /\ UNCHANGED <<api, server, lab, apiKey, gemini, store, request, user, params, retryCount,
                 aiRecipeData, recipeData, cancelled, obs>>

\* a verifyToken that swallows the verification error
VerifyIdTokenAcceptsAny(token) == TRUE

\* config/firebase.js verifyToken: whether verifyIdToken can accept the token
VerifyIdTokenAccepts(token) == DecodedUid(token) # NoUser

\* verifyToken resolves: req.user is set and next() is called
VerifyTokenResolves(r) ==
  /\ pc[r] = "verifyToken"
  /\ VerifyIdTokenAccepts(request[r].authorization.token)
  /\ user' = [user EXCEPT ![r] = DecodedUid(request[r].authorization.token)]
  /\ pc' = [pc EXCEPT ![r] = "validate"]
  /\ UNCHANGED <<api, server, lab, apiKey, gemini, store, request, params, retryCount, aiRecipeData,
                 recipeData, responses, cancelled, obs>>

\* verifyToken rejects (bad token, or Firebase unreachable): 401
VerifyTokenRejects(r) ==
  /\ pc[r] = "verifyToken"
  /\ responses' = [responses EXCEPT ![r] = Append(@, Response(401, "INVALID_TOKEN"))]
  /\ pc' = [pc EXCEPT ![r] = "done"]
  /\ UNCHANGED <<api, server, lab, apiKey, gemini, store, request, user, params, retryCount,
                 aiRecipeData, recipeData, cancelled, obs>>

\* validate(recipeGenerationSchema); when the body passes, next() runs the
\* handler up to its first await
Validate(r) ==
  /\ pc[r] = "validate"
  /\ IF recipeGenerationSchemaAccepts(request[r].body)
     THEN LET prm == recipeGenerationSchemaParse(request[r].body) IN
          /\ params' = [params EXCEPT ![r] = prm]
          /\ EnterLoop(r, prm)
     ELSE /\ responses' = [responses EXCEPT ![r] = Append(@, Response(400, "VALIDATION_ERROR"))]
          /\ pc' = [pc EXCEPT ![r] = "done"]
          /\ UNCHANGED <<gemini, store, params, retryCount, aiRecipeData, recipeData, obs>>
  /\ UNCHANGED <<api, server, lab, apiKey, request, user, cancelled>>

\* generateContent settles: the rest of generateRecipe, then validateAIRecipe,
\* then either the break and Recipe.create or the catch block
GenerateContentSettles(r, outcome) ==
  /\ pc[r] = "generateContent"
  /\ LET res == generateRecipeResult(outcome)
         v == IF res.threw THEN [ok |-> FALSE, value |-> Undefined]
              ELSE validateAIRecipe(res.value)
     IN IF v.ok
        THEN CallCreate(r, v.value, params[r],
                        [obs[r] EXCEPT !.validated = @ \cup {v.value}])
        ELSE Catch(r, obs[r])
  /\ UNCHANGED <<api, server, lab, apiKey, gemini, request, user, params, cancelled>>

\* a retry that drops the allergies from the constraints
DelayElapsesRelaxed(r) ==
  /\ pc[r] = "delay"
  /\ EnterLoop(r, Pick(params[r], DOMAIN params[r] \ {"allergies"}))
  /\ UNCHANGED <<api, server, lab, apiKey, request, user, params, cancelled>>

\* the 1000 ms timer fires: back to the while test
DelayElapses(r) ==
  /\ pc[r] = "delay"
  /\ EnterLoop(r, params[r])
  /\ UNCHANGED <<api, server, lab, apiKey, request, user, params, cancelled>>

\* Recipe.create resolves: the document is stored and returned with 201
CreateResolves(r) ==
  /\ pc[r] = "create"
  /\ RecipeModelAccepts(recipeData[r])
  /\ LET doc == [id |-> Len(store) + 1] @@ recipeData[r] IN
     /\ store' = Append(store, doc)
     /\ responses' = [responses EXCEPT ![r] =
                        Append(@, [status |-> 201, code |-> "CREATED", recipe |-> doc])]
  /\ pc' = [pc EXCEPT ![r] = "done"]
  /\ UNCHANGED <<api, server, lab, apiKey, gemini, request, user, params, retryCount, aiRecipeData,
                 recipeData, cancelled, obs>>

\* a Recipe.create that rejects after the document was written
CreateRejectsAfterWrite(r) ==
  /\ pc[r] = "create"
  /\ store' = Append(store, [id |-> Len(store) + 1] @@ recipeData[r])
  /\ responses' = [responses EXCEPT ![r] = Append(@, OuterCatchResponse(MongoErrorMessage))]
  /\ pc' = [pc EXCEPT ![r] = "done"]
  /\ UNCHANGED <<api, server, lab, apiKey, gemini, request, user, params, retryCount,
                 aiRecipeData, recipeData, cancelled, obs>>

\* Recipe.create rejects (validation or database error): the outer catch
CreateRejects(r) ==
  /\ pc[r] = "create"
  /\ responses' = [responses EXCEPT ![r] = Append(@, OuterCatchResponse(MongoErrorMessage))]
  /\ pc' = [pc EXCEPT ![r] = "done"]
  /\ UNCHANGED <<api, server, lab, apiKey, gemini, store, request, user, params, retryCount,
                 aiRecipeData, recipeData, cancelled, obs>>

\* the client aborts the request while an attempt or the delay is in progress
Cancel(r) ==
  /\ pc[r] \in {"generateContent", "delay"}
  /\ ~cancelled[r]
  /\ cancelled' = [cancelled EXCEPT ![r] = TRUE]
  /\ UNCHANGED <<api, server, lab, apiKey, gemini, store, pc, request, user, params, retryCount,
                 aiRecipeData, recipeData, responses, obs>>

(***************************************************************************)
(* server.js: startServer.                                                 *)
(***************************************************************************)
requests == <<pc, request, user, params, retryCount, aiRecipeData, recipeData,
              responses, cancelled, obs>>

\* initializeFirebase, then the call of connectDB; an exception ends the
\* process (process.exit(1))
StartServer(firebaseOk) ==
  /\ server = "starting"
  /\ server' = IF firebaseOk THEN "connecting" ELSE "exited"
  /\ UNCHANGED <<api, lab, apiKey, gemini, store, requests>>

\* connectDB settles: app.listen, or process.exit(1)
ConnectDBSettles(connected) ==
  /\ server = "connecting"
  /\ server' = IF connected THEN "listening" ELSE "exited"
  /\ UNCHANGED <<api, lab, apiKey, gemini, store, requests>>

\* the steps a run takes once its request is in
RunStep(r) ==
  \/ Authenticate(r)
  \/ VerifyTokenResolves(r)
  \/ VerifyTokenRejects(r)
  \/ Validate(r)
  \/ \E outcome \in ProviderOutcomes : GenerateContentSettles(r, outcome)
  \/ DelayElapses(r)
  \/ CreateResolves(r)
  \/ CreateRejects(r)

Next ==
  \/ \E firebaseOk \in BOOLEAN : StartServer(firebaseOk)
  \/ \E connected \in BOOLEAN : ConnectDBSettles(connected)
  \/ \E r \in Runs, q \in Requests : Request(r, q)
  \/ \E r \in Runs : Authenticate(r)
  \/ \E r \in Runs : VerifyTokenResolves(r)
  \/ \E r \in Runs : VerifyTokenRejects(r)
  \/ \E r \in Runs : Validate(r)
  \/ \E r \in Runs, outcome \in ProviderOutcomes : GenerateContentSettles(r, outcome)
  \/ \E r \in Runs : DelayElapses(r)
  \/ \E r \in Runs : CreateResolves(r)
  \/ \E r \in Runs : CreateRejects(r)
  \/ \E r \in Runs : Cancel(r)

Spec == Init /\ [][Next]_vars

\* every pending promise and timer of a run eventually settles
FairSpec == Spec /\ \A r \in Runs : WF_vars(RunStep(r))

(***************************************************************************)
(* validators/schemas.js: updateRecipeSchema = createRecipeSchema.partial() *)
(* Every key is optional; a key that is present is checked and parsed as   *)
(* in createRecipeSchema; the defaults are not applied to missing keys.    *)
(***************************************************************************)
updateRecipeSchemaAccepts(data) ==
  /\ data.type = "object"
  /\ LET o == data.fields IN
     /\ Has(o, "title") => (Len(o.title) >= 3 /\ Len(o.title) <= 200)
     /\ Has(o, "description") => (Len(o.description) >= 10 /\ Len(o.description) <= 2000)
     /\ Has(o, "prepTime") => Len(o.prepTime) >= 1
     /\ Has(o, "cookTime") => Len(o.cookTime) >= 1
     /\ Has(o, "servings") => (o.servings >= 1 /\ o.servings <= 100)
     /\ Has(o, "calories") => (o.calories >= 0 /\ o.calories <= 5000)
     /\ Has(o, "difficulty") => o.difficulty \in Difficulties
     /\ OptionalUrl(o, "imageUrl")
     /\ Has(o, "nutrition") => createNutritionSchemaAccepts(o.nutrition)
     /\ Has(o, "ingredients") =>
          /\ Len(o.ingredients) >= 1
          /\ \A i \in DOMAIN o.ingredients : createIngredientSchemaAccepts(o.ingredients[i])
     /\ Has(o, "dressingIngredients") =>
          \A i \in DOMAIN o.dressingIngredients :
             createIngredientSchemaAccepts(o.dressingIngredients[i])
     /\ Has(o, "steps") =>
          /\ Len(o.steps) >= 1
          /\ \A i \in DOMAIN o.steps : createRecipeStepSchemaAccepts(o.steps[i])
     /\ Has(o, "shoppingList") =>
          \A i \in DOMAIN o.shoppingList :
             createShoppingCategorySchemaAccepts(o.shoppingList[i])
     /\ OptionalUrl(o, "videoUrl")

\* an update schema that lets userId through
updateRecipeSchemaParseWithUserId(data) ==
  LET o == data.fields
      title == IF Has(o, "title") THEN [title |-> TrimString(o.title)] ELSE <<>>
      subtitle == IF Has(o, "subtitle") THEN [subtitle |-> TrimString(o.subtitle)] ELSE <<>>
  IN title @@ subtitle @@ Pick(o, CreateRecipeKeys \cup {"userId"})

\* the modelled update bodies carry scalar keys only
updateRecipeSchemaParse(data) ==
  LET o == data.fields
      title == IF Has(o, "title") THEN [title |-> TrimString(o.title)] ELSE <<>>
      subtitle == IF Has(o, "subtitle") THEN [subtitle |-> TrimString(o.subtitle)] ELSE <<>>
  IN title @@ subtitle @@ Pick(o, CreateRecipeKeys)

(***************************************************************************)
(* routes/recipes.js: POST /, PUT /:id and DELETE /:id.  A request arrives *)
(* on a connection with the uid authenticate has put in req.user; each     *)
(* action is the piece of the handler between two awaits.  The Recipe      *)
(* collection is store: the position of a document is its _id, and a       *)
(* deleted document leaves a tombstone, so that no _id is used twice.      *)
(***************************************************************************)
Users == {"alice", "bob"}

\* create and generate requests are taken while the collection is smaller
MaxRecipes == 2

Null == [type |-> "null"]

Tombstone(i) == [id |-> i, deleted |-> TRUE]

Live(coll, i) == i \in DOMAIN coll /\ ~Has(coll[i], "deleted")

findById(coll, i) == IF Live(coll, i) THEN coll[i] ELSE Null

\* mongoose.Types.ObjectId.isValid: the well-formed ids are the positive numbers
IsValidId(i) == i > 0

\* a recipe stored before recipes had an owner: the userId path is not required
LegacyRecipe ==
  [id |-> 1, title |-> "Plain Rice", description |-> "Steamed white rice.",
   prepTime |-> "5 min", cookTime |-> "15 min", servings |-> 2, calories |-> 200,
   difficulty |-> "Easy"]

CreateBodies ==
  {[type |-> "object", fields |-> ValidRecipeFields],
   [type |-> "object", fields |-> [title |-> "Lentil Soup"]]}

UpdateBodies ==
  {[type |-> "object", fields |-> [title |-> "Renamed Soup"]],
   [type |-> "object", fields |-> [title |-> "Hijacked Soup", userId |-> "bob"]],
   [type |-> "object", fields |-> [servings |-> 0]]}

\* recipe.userId && recipe.userId !== req.user.uid
OwnedByOther(recipe, uid) ==
  Has(recipe, "userId") /\ recipe.userId # "" /\ recipe.userId # uid

Respond(c, status, code, doc) ==
  calls' = [calls EXCEPT ![c] =
              [NoCall EXCEPT !.response = [status |-> status, code |-> code, recipe |-> doc]]]

\* POST /api/recipes up to the await of Recipe.create
CreateRecipeRequest(c, u, body) ==
  /\ server = "listening"
  /\ calls[c].pc = "idle"
  /\ Len(store) < MaxRecipes
  /\ LET v == validate("createRecipeSchema", body) IN
     calls' = [calls EXCEPT ![c] =
                 IF v.ok
                 THEN [NoCall EXCEPT !.op = "create", !.pc = "create", !.uid = u,
                                     !.body = [userId |-> u] @@ v.value]
                 ELSE [NoCall EXCEPT !.response = Response(400, "VALIDATION_ERROR")]]
  /\ UNCHANGED <<saved, server, lab, apiKey, gemini, store, requests>>

\* Recipe.create resolves: 201 with the stored document
RecipeCreateResolves(c) ==
  /\ calls[c].pc = "create"
  /\ RecipeModelAccepts(calls[c].body)
  /\ LET doc == [id |-> Len(store) + 1] @@ calls[c].body IN
     /\ store' = Append(store, doc)
     /\ Respond(c, 201, "CREATED", doc)
  /\ UNCHANGED <<saved, server, lab, apiKey, gemini, requests>>

\* PUT /api/recipes/:id up to the await of Recipe.findById
UpdateRecipeRequest(c, u, id, body) ==
  /\ server = "listening"
  /\ calls[c].pc = "idle"
  /\ LET v == IF updateRecipeSchemaAccepts(body)
              THEN [ok |-> TRUE, value |-> updateRecipeSchemaParse(body)]
              ELSE [ok |-> FALSE, value |-> Undefined]
         call == [NoCall EXCEPT !.op = "update", !.uid = u, !.id = id]
     IN calls' = [calls EXCEPT ![c] =
                    IF ~v.ok
                    THEN [NoCall EXCEPT !.response = Response(400, "VALIDATION_ERROR")]
                    ELSE IF ~IsValidId(id)
                         THEN [NoCall EXCEPT !.response = Response(400, "INVALID_ID")]
                         ELSE [call EXCEPT !.pc = "findById", !.body = v.value]]
  /\ UNCHANGED <<saved, server, lab, apiKey, gemini, store, requests>>

\* DELETE /api/recipes/:id up to the await of Recipe.findById
DeleteRecipeRequest(c, u, id) ==
  /\ server = "listening"
  /\ calls[c].pc = "idle"
  /\ LET call == [NoCall EXCEPT !.op = "delete", !.uid = u, !.id = id] IN
     calls' = [calls EXCEPT ![c] =
                 IF ~IsValidId(id)
                 THEN [NoCall EXCEPT !.response = Response(400, "INVALID_ID")]
                 ELSE [call EXCEPT !.pc = "findById"]]
  /\ UNCHANGED <<saved, server, lab, apiKey, gemini, store, requests>>

\* Recipe.findById resolves: 404, 403, or on to the write
RecipeFindByIdResolves(c) ==
  /\ calls[c].pc = "findById"
  /\ calls[c].op \in {"update", "delete"}
  /\ LET recipe == findById(store, calls[c].id) IN
     IF recipe = Null
     THEN Respond(c, 404, "NOT_FOUND", Undefined)
     ELSE IF OwnedByOther(recipe, calls[c].uid)
          THEN Respond(c, 403, "FORBIDDEN", Undefined)
          ELSE calls' = [calls EXCEPT
                           ![c].pc = IF calls[c].op = "update" THEN "save"
                                     ELSE "findByIdAndDelete",
                           ![c].found = IF calls[c].op = "update"
                                        THEN calls[c].body @@ recipe
                                        ELSE recipe]
  /\ UNCHANGED <<saved, server, lab, apiKey, gemini, store, requests>>

\* recipe.save() resolves: the modified paths are written to the stored
\* document; a document deleted in the meantime makes save throw
RecipeSaveResolves(c) ==
  /\ calls[c].pc = "save"
  /\ calls[c].op = "update"
  /\ IF Live(store, calls[c].id)
     THEN /\ store' = [store EXCEPT ![calls[c].id] = calls[c].body @@ @]
          /\ Respond(c, 200, "OK", calls[c].found)
     ELSE /\ Respond(c, 500, "UPDATE_ERROR", Undefined)
          /\ UNCHANGED store
  /\ UNCHANGED <<saved, server, lab, apiKey, gemini, requests>>

\* Recipe.findByIdAndDelete resolves
RecipeDeleteResolves(c) ==
  /\ calls[c].pc = "findByIdAndDelete"
  /\ store' = IF Live(store, calls[c].id)
              THEN [store EXCEPT ![calls[c].id] = Tombstone(calls[c].id)]
              ELSE store
  /\ Respond(c, 200, "OK", Undefined)
  /\ UNCHANGED <<saved, server, lab, apiKey, gemini, requests>>

ErrorNames == {"ValidationError", "MongoServerError"}

\* a database call of a recipes handler rejects with an error of the given
\* name: the catch block of the handler
RecipeDbRejects(c, name) ==
  /\ calls[c].pc \in {"create", "findById", "save", "findByIdAndDelete"}
  /\ calls[c].op \in {"create", "update", "delete"}
  /\ name = "ValidationError" => calls[c].pc \in {"create", "save"}
  /\ IF name = "ValidationError"
     THEN Respond(c, 400, "VALIDATION_ERROR", Undefined)
     ELSE Respond(c, 500,
                  CASE calls[c].op = "create" -> "CREATE_ERROR"
                    [] calls[c].op = "update" -> "UPDATE_ERROR"
                    [] calls[c].op = "delete" -> "DELETE_ERROR",
                  Undefined)
  /\ UNCHANGED <<saved, server, lab, apiKey, gemini, store, requests>>

(***************************************************************************)
(* The generate handler fed with candidates at the limits of the schema:   *)
(* the server is listening, every request is the same well-formed one, and *)
(* the provider answers with one of the documents of ServingsDocuments and *)
(* CaloriesDocuments.                                                      *)
(***************************************************************************)
LimitDocuments == DOMAIN ServingsDocuments \cup DOMAIN CaloriesDocuments

LimitOutcome(d) == [ok |-> TRUE, text |-> <<d>>]

LimitRequest ==
  [authorization |-> [scheme |-> "Bearer ", token |-> "token-alice"],
   body |-> [allergies |-> <<"Peanuts">>, servings |-> 4, difficulty |-> "Medium"]]

LimitInit ==
  /\ server = "listening"
  /\ lab = NoLab
  /\ apiKey = TRUE
  /\ genAI = 0 /\ model = 0 /\ constructs = 0 /\ returned = {}
  /\ store = <<>>
  /\ pc = [r \in Runs |-> "idle"]
  /\ request = [r \in Runs |-> NoRequest]
  /\ user = [r \in Runs |-> NoUser]
  /\ params = [r \in Runs |-> <<>>]
  /\ retryCount = [r \in Runs |-> 0]
  /\ aiRecipeData = [r \in Runs |-> Undefined]
  /\ recipeData = [r \in Runs |-> Undefined]
  /\ responses = [r \in Runs |-> <<>>]
  /\ cancelled = [r \in Runs |-> FALSE]
  /\ obs = [r \in Runs |-> NoObs]
  /\ saved = <<>>
  /\ calls = [c \in Calls |-> NoCall]

LimitNext ==
  \/ \E r \in Runs : Request(r, LimitRequest)
  \/ \E r \in Runs : Authenticate(r)
  \/ \E r \in Runs : VerifyTokenResolves(r)
  \/ \E r \in Runs : Validate(r)
  \/ \E r \in Runs, d \in LimitDocuments : GenerateContentSettles(r, LimitOutcome(d))
  \/ \E r \in Runs : DelayElapses(r)
  \/ \E r \in Runs : CreateResolves(r)
  \/ \E r \in Runs : CreateRejects(r)

LimitSpec == LimitInit /\ [][LimitNext]_vars

(***************************************************************************)
(* The recipes routes together: create, update and delete requests on one  *)
(* connection and one generate run, over a collection that starts empty    *)
(* or with one recipe that has no owner.                                   *)
(***************************************************************************)
RecipeIds == 0..MaxRecipes

\* a single connection
OneCall == {1}

RecipeApiInit ==
  /\ server = "listening"
  /\ lab = NoLab
  /\ apiKey = TRUE
  /\ genAI = 0 /\ model = 0 /\ constructs = 0 /\ returned = {}
  /\ store \in {<<>>, << LegacyRecipe >>}
  /\ pc = [r \in Runs |-> "idle"]
  /\ request = [r \in Runs |-> NoRequest]
  /\ user = [r \in Runs |-> NoUser]
  /\ params = [r \in Runs |-> <<>>]
  /\ retryCount = [r \in Runs |-> 0]
  /\ aiRecipeData = [r \in Runs |-> Undefined]
  /\ recipeData = [r \in Runs |-> Undefined]
  /\ responses = [r \in Runs |-> <<>>]
  /\ cancelled = [r \in Runs |-> FALSE]
  /\ obs = [r \in Runs |-> NoObs]
  /\ saved = <<>>
  /\ calls = [c \in Calls |-> NoCall]

RecipeApiNext ==
  \/ \E c \in OneCall, u \in Users, body \in CreateBodies : CreateRecipeRequest(c, u, body)
  \/ \E c \in OneCall : RecipeCreateResolves(c)
  \/ \E c \in OneCall, u \in Users, id \in RecipeIds, body \in UpdateBodies :
        UpdateRecipeRequest(c, u, id, body)
  \/ \E c \in OneCall, u \in Users, id \in RecipeIds : DeleteRecipeRequest(c, u, id)
  \/ \E c \in OneCall : RecipeFindByIdResolves(c)
  \/ \E c \in OneCall : RecipeSaveResolves(c)
  \/ \E c \in OneCall : RecipeDeleteResolves(c)
  \/ \E c \in OneCall, name \in ErrorNames : RecipeDbRejects(c, name)
  \/ Len(store) < MaxRecipes /\ Request(1, LimitRequest)
  \/ Authenticate(1)
  \/ VerifyTokenResolves(1)
  \/ Validate(1)
  \/ GenerateContentSettles(1, LimitOutcome("{valid}"))
  \/ CreateResolves(1)

RecipeApiSpec == RecipeApiInit /\ [][RecipeApiNext]_vars

(***************************************************************************)
(* routes/savedRecipes.js: GET /, POST /, PUT /:recipeId and               *)
(* DELETE /:recipeId of /api/users/me/saved.  The SavedRecipe collection   *)
(* is saved: the position of an entry is its _id, and a removed entry      *)
(* leaves a tombstone.  The collection has the unique index                *)
(* { userId: 1, recipeId: 1 } of models/SavedRecipe.js.                    *)
(***************************************************************************)
\* save requests are taken while the collection holds fewer entries
MaxSaved == 2

\* validators/schemas.js: saveRecipeSchema (recipeId is checked by the handler)
saveRecipeSchemaAccepts(data) ==
  /\ data.type = "object"
  /\ Has(data.fields, "recipeId")
  /\ Has(data.fields, "notes") => Len(data.fields.notes) <= 1000
  /\ Has(data.fields, "rating") => (data.fields.rating >= 1 /\ data.fields.rating <= 5)

saveRecipeSchemaParse(data) == Pick(data.fields, {"recipeId", "notes", "rating"})

\* validators/schemas.js: updateSavedRecipeSchema
updateSavedRecipeSchemaAccepts(data) ==
  /\ data.type = "object"
  /\ Has(data.fields, "notes") => Len(data.fields.notes) <= 1000
  /\ Has(data.fields, "rating") => (data.fields.rating >= 1 /\ data.fields.rating <= 5)

updateSavedRecipeSchemaParse(data) == Pick(data.fields, {"notes", "rating"})

SaveBodies ==
  {[type |-> "object", fields |-> [recipeId |-> 0]],
   [type |-> "object", fields |-> [recipeId |-> 1]],
   [type |-> "object", fields |-> [recipeId |-> 1, rating |-> 9]],
   [type |-> "object", fields |-> [recipeId |-> 2]]}

UpdateSavedBodies ==
  {[type |-> "object", fields |-> [rating |-> 4]],
   [type |-> "object", fields |-> [rating |-> 9]]}

\* a query that matches the entries of every user
MatchesAnyUser(entry, uid, recipeId) ==
  ~Has(entry, "deleted") /\ entry.recipeId = recipeId

\* the filter { userId, recipeId } of findOne and findOneAndDelete
Matches(entry, uid, recipeId) ==
  ~Has(entry, "deleted") /\ entry.userId = uid /\ entry.recipeId = recipeId

\* SavedRecipe.findOne({ userId, recipeId }): the _id of the first match, or 0
findOne(coll, uid, recipeId) ==
  LET found == {i \in DOMAIN coll : Matches(coll[i], uid, recipeId)} IN
  IF found = {} THEN 0 ELSE CHOOSE i \in found : \A j \in found : i <= j

\* an insert that does not consult the unique index
DuplicateKeyNever(coll, uid, recipeId) == FALSE

\* the unique index { userId: 1, recipeId: 1 }: an insert of a pair that is
\* present fails with code 11000
DuplicateKey(coll, uid, recipeId) ==
  \E i \in DOMAIN coll :
     ~Has(coll[i], "deleted") /\ coll[i].userId = uid /\ coll[i].recipeId = recipeId

\* a listing that returns the entries of every user
ListedAnyUser(coll, recipes, uid) ==
  SelectSeq(coll, LAMBDA e : ~Has(e, "deleted") /\ Live(recipes, e.recipeId))

\* SavedRecipe.find({ userId }) populated, without the entries whose recipe
\* is gone
Listed(coll, recipes, uid) ==
  SelectSeq(coll, LAMBDA e : ~Has(e, "deleted") /\ e.userId = uid /\ Live(recipes, e.recipeId))

\* GET /api/users/me/saved up to the await of SavedRecipe.find
ListSavedRequest(c, u) ==
  /\ server = "listening"
  /\ calls[c].pc = "idle"
  /\ calls' = [calls EXCEPT ![c] = [NoCall EXCEPT !.op = "list", !.pc = "find", !.uid = u]]
  /\ UNCHANGED <<saved, server, lab, apiKey, gemini, store, requests>>

\* SavedRecipe.find resolves
SavedFindResolves(c) ==
  /\ calls[c].pc = "find"
  /\ Respond(c, 200, "FETCHED", Listed(saved, store, calls[c].uid))
  /\ UNCHANGED <<saved, server, lab, apiKey, gemini, store, requests>>

\* POST /api/users/me/saved up to the await of Recipe.findById
SaveRecipeRequest(c, u, body) ==
  /\ server = "listening"
  /\ calls[c].pc = "idle"
  /\ Len(saved) < MaxSaved
  /\ calls' = [calls EXCEPT ![c] =
                 IF ~saveRecipeSchemaAccepts(body)
                 THEN [NoCall EXCEPT !.response = Response(400, "VALIDATION_ERROR")]
                 ELSE LET b == saveRecipeSchemaParse(body) IN
                      IF ~IsValidId(b.recipeId)
                      THEN [NoCall EXCEPT !.response = Response(400, "INVALID_ID")]
                      ELSE [NoCall EXCEPT !.op = "save", !.pc = "findRecipe", !.uid = u,
                                          !.id = b.recipeId,
                                          !.body = Pick(b, {"notes", "rating"})]]
  /\ UNCHANGED <<saved, server, lab, apiKey, gemini, store, requests>>

\* Recipe.findById resolves in the save handler
SavedFindRecipeResolves(c) ==
  /\ calls[c].pc = "findRecipe"
  /\ IF findById(store, calls[c].id) = Null
     THEN Respond(c, 404, "RECIPE_NOT_FOUND", Undefined)
     ELSE calls' = [calls EXCEPT ![c].pc = "findOne"]
  /\ UNCHANGED <<saved, server, lab, apiKey, gemini, store, requests>>

\* PUT /api/users/me/saved/:recipeId up to the await of SavedRecipe.findOne
UpdateSavedRequest(c, u, id, body) ==
  /\ server = "listening"
  /\ calls[c].pc = "idle"
  /\ calls' = [calls EXCEPT ![c] =
                 IF ~updateSavedRecipeSchemaAccepts(body)
                 THEN [NoCall EXCEPT !.response = Response(400, "VALIDATION_ERROR")]
                 ELSE IF ~IsValidId(id)
                      THEN [NoCall EXCEPT !.response = Response(400, "INVALID_ID")]
                      ELSE [NoCall EXCEPT !.op = "updateSaved", !.pc = "findOne", !.uid = u,
                                          !.id = id,
                                          !.body = updateSavedRecipeSchemaParse(body)]]
  /\ UNCHANGED <<saved, server, lab, apiKey, gemini, store, requests>>

\* SavedRecipe.findOne resolves: in the save handler 409 if the entry is
\* there, in the update handler 404 if it is not
SavedFindOneResolves(c) ==
  /\ calls[c].pc = "findOne"
  /\ LET i == findOne(saved, calls[c].uid, calls[c].id) IN
     IF calls[c].op = "save"
     THEN IF i # 0
          THEN Respond(c, 409, "ALREADY_SAVED", Undefined)
          ELSE calls' = [calls EXCEPT ![c].pc = "create"]
     ELSE IF i = 0
          THEN Respond(c, 404, "NOT_FOUND", Undefined)
          ELSE calls' = [calls EXCEPT ![c].pc = "save", ![c].found = i]
  /\ UNCHANGED <<saved, server, lab, apiKey, gemini, store, requests>>

\* SavedRecipe.create settles: 201 with the new entry, or the duplicate key
\* error of the unique index, which the catch block answers with 409
SavedCreateSettles(c) ==
  /\ calls[c].pc = "create"
  /\ calls[c].op = "save"
  /\ IF DuplicateKey(saved, calls[c].uid, calls[c].id)
     THEN /\ Respond(c, 409, "ALREADY_SAVED", Undefined)
          /\ UNCHANGED saved
     ELSE LET entry == [userId |-> calls[c].uid, recipeId |-> calls[c].id] @@ calls[c].body IN
          /\ saved' = Append(saved, entry)
          /\ Respond(c, 201, "CREATED", entry)
  /\ UNCHANGED <<server, lab, apiKey, gemini, store, requests>>

\* savedRecipe.save() resolves: the modified paths are written to the entry
\* found; an entry removed in the meantime makes save throw
SavedSaveResolves(c) ==
  /\ calls[c].pc = "save"
  /\ calls[c].op = "updateSaved"
  /\ LET i == calls[c].found IN
     IF ~Has(saved[i], "deleted")
     THEN /\ saved' = [saved EXCEPT ![i] = calls[c].body @@ @]
          /\ Respond(c, 200, "OK", calls[c].body @@ saved[i])
     ELSE /\ Respond(c, 500, "UPDATE_ERROR", Undefined)
          /\ UNCHANGED saved
  /\ UNCHANGED <<server, lab, apiKey, gemini, store, requests>>

\* DELETE /api/users/me/saved/:recipeId up to the await of findOneAndDelete
UnsaveRequest(c, u, id) ==
  /\ server = "listening"
  /\ calls[c].pc = "idle"
  /\ calls' = [calls EXCEPT ![c] =
                 IF ~IsValidId(id)
                 THEN [NoCall EXCEPT !.response = Response(400, "INVALID_ID")]
                 ELSE [NoCall EXCEPT !.op = "unsave", !.pc = "findOneAndDelete", !.uid = u,
                                     !.id = id]]
  /\ UNCHANGED <<saved, server, lab, apiKey, gemini, store, requests>>

\* SavedRecipe.findOneAndDelete resolves
SavedFindOneAndDeleteResolves(c) ==
  /\ calls[c].pc = "findOneAndDelete"
  /\ calls[c].op = "unsave"
  /\ LET i == findOne(saved, calls[c].uid, calls[c].id) IN
     IF i = 0
     THEN /\ Respond(c, 404, "NOT_FOUND", Undefined)
          /\ UNCHANGED saved
     ELSE /\ saved' = [saved EXCEPT ![i] = [deleted |-> TRUE]]
          /\ Respond(c, 200, "OK", Undefined)
  /\ UNCHANGED <<server, lab, apiKey, gemini, store, requests>>

\* a database call of a saved-recipes handler rejects with an error that is
\* not a duplicate key error: the catch block of the handler
SavedDbRejects(c) ==
  /\ calls[c].pc \in {"find", "findRecipe", "findOne", "create", "save", "findOneAndDelete"}
  /\ calls[c].op \in {"list", "save", "updateSaved", "unsave"}
  /\ Respond(c, 500,
             CASE calls[c].op = "list" -> "FETCH_ERROR"
               [] calls[c].op = "save" -> "SAVE_ERROR"
               [] calls[c].op = "updateSaved" -> "UPDATE_ERROR"
               [] calls[c].op = "unsave" -> "DELETE_ERROR",
             Undefined)
  /\ UNCHANGED <<saved, server, lab, apiKey, gemini, store, requests>>

SavedApiInit ==
  /\ server = "listening"
  /\ lab = NoLab
  /\ apiKey = TRUE
  /\ genAI = 0 /\ model = 0 /\ constructs = 0 /\ returned = {}
  /\ store = << LegacyRecipe >>
  /\ pc = [r \in Runs |-> "idle"]
  /\ request = [r \in Runs |-> NoRequest]
  /\ user = [r \in Runs |-> NoUser]
  /\ params = [r \in Runs |-> <<>>]
  /\ retryCount = [r \in Runs |-> 0]
  /\ aiRecipeData = [r \in Runs |-> Undefined]
  /\ recipeData = [r \in Runs |-> Undefined]
  /\ responses = [r \in Runs |-> <<>>]
  /\ cancelled = [r \in Runs |-> FALSE]
  /\ obs = [r \in Runs |-> NoObs]
  /\ saved = <<>>
  /\ calls = [c \in Calls |-> NoCall]

SavedApiNext ==
  \/ \E c \in OneCall, u \in Users : ListSavedRequest(c, u)
  \/ \E c \in OneCall : SavedFindResolves(c)
  \/ \E c \in OneCall, u \in Users, body \in SaveBodies : SaveRecipeRequest(c, u, body)
  \/ \E c \in OneCall : SavedFindRecipeResolves(c)
  \/ \E c \in OneCall, u \in Users, id \in RecipeIds, body \in UpdateSavedBodies :
        UpdateSavedRequest(c, u, id, body)
  \/ \E c \in OneCall : SavedFindOneResolves(c)
  \/ \E c \in OneCall : SavedCreateSettles(c)
  \/ \E c \in OneCall : SavedSaveResolves(c)
  \/ \E c \in OneCall, u \in Users, id \in RecipeIds : UnsaveRequest(c, u, id)
  \/ \E c \in OneCall : SavedFindOneAndDeleteResolves(c)
  \/ \E c \in OneCall : SavedDbRejects(c)

SavedApiSpec == SavedApiInit /\ [][SavedApiNext]_vars

(***************************************************************************)
(* Save and unsave requests arriving on several connections at once.       *)
(***************************************************************************)
SaveRaceNext ==
  \/ \E c \in Calls, u \in Users, body \in SaveBodies : SaveRecipeRequest(c, u, body)
  \/ \E c \in Calls : SavedFindRecipeResolves(c)
  \/ \E c \in Calls : SavedFindOneResolves(c)
  \/ \E c \in Calls : SavedCreateSettles(c)
  \/ \E c \in Calls, u \in Users : UnsaveRequest(c, u, 1)
  \/ \E c \in Calls : SavedFindOneAndDeleteResolves(c)
  \/ \E c \in Calls : SavedDbRejects(c)

SaveRaceSpec == SavedApiInit /\ [][SaveRaceNext]_vars

(***************************************************************************)
(* The generate handler fed with a range of constraint sets: the server is *)
(* listening, one client sends a request whose body is one of PromptBodies,*)
(* and the provider fails or answers with the well-formed recipe.          *)
(***************************************************************************)
AllergyLists ==
  << <<"Peanuts">>, <<"Peanuts", "Shellfish">>, <<"Tree nuts", "Soy", "Sesame">> >>

\* a body with no allergies key (a = 0) or the a-th list, and with or
\* without dietary preferences, excluded ingredients and a prep time limit
PromptBody(a, diet, exclude, prep) ==
  (IF a = 0 THEN <<>> ELSE [allergies |-> AllergyLists[a]])
    @@ (IF diet THEN [dietaryPreferences |-> <<"Vegan">>] ELSE <<>>)
    @@ (IF exclude THEN [excludeIngredients |-> <<"Peanuts">>] ELSE <<>>)
    @@ (IF prep THEN [maxPrepTime |-> 30] ELSE <<>>)

PromptBodies ==
  {PromptBody(a, diet, exclude, prep) :
     a \in 0..Len(AllergyLists), diet \in BOOLEAN, exclude \in BOOLEAN, prep \in BOOLEAN}

PromptRequests ==
  {[authorization |-> [scheme |-> "Bearer ", token |-> "token-alice"], body |-> b] :
     b \in PromptBodies}

PromptOutcomes == {[ok |-> FALSE, text |-> <<>>], [ok |-> TRUE, text |-> <<"{valid}">>]}

PromptNext ==
  \/ \E q \in PromptRequests : Request(1, q)
  \/ Authenticate(1)
  \/ VerifyTokenResolves(1)
  \/ Validate(1)
  \/ \E outcome \in PromptOutcomes : GenerateContentSettles(1, outcome)
  \/ DelayElapses(1)
  \/ CreateResolves(1)
  \/ CreateRejects(1)

PromptSpec == LimitInit /\ [][PromptNext]_vars

(***************************************************************************)
(* The validators, the extraction and the prompt builder exercised on      *)
(* their own: Init draws the input of one call into lab, the actions apply *)
(* the functions to it.  The server variables stay in a state the server   *)
(* can be in (listening, no request yet).                                  *)
(***************************************************************************)
Absent == "<absent>"

WithKey(o, k, v) == [x \in (DOMAIN o) \cup {k} |-> IF x = k THEN v ELSE o[x]]

SetOptional(o, k, v) == IF v = Absent THEN o ELSE WithKey(o, k, v)

\* a recipe with every optional key present
FullRecipeFields ==
  [ValidRecipeFields @@
     [subtitle |-> " hearty ", tags |-> <<"soup">>, cuisine |-> "Turkish",
      youtubeId |-> "dQw4w9WgXcQ", videoUrl |-> "",
      dressingIngredients |-> << [amount |-> "1 tbsp", item |-> "olive oil"] >>,
      shoppingList |-> << [category |-> "Pantry", items |-> <<"red lentils">>] >>,
      generationParams |-> [servings |-> 4]]
   EXCEPT !.nutrition = ValidNutrition @@
                          [sodium |-> "300mg", sugar |-> "4g",
                           saturatedFat |-> "2g", cholesterol |-> "0mg"],
          !.steps = << [number |-> 1, title |-> "Simmer",
                        description |-> "Simmer the lentils.",
                        tip |-> "Stir now and then.", duration |-> "25 min"] >>]

CandidateServings == {0, 1, 100, 101}

CandidateTitles == {"Lentil Soup", " Lentil Soup ", "ab"}

CandidateImages == {Absent, "", "not a url", "https://img.example/soup.jpg"}

CandidateStepImages == {Absent, "not a url"}

Candidate(base, sv, ttl, img, simg) ==
  LET o == [base EXCEPT !.servings = sv, !.title = ttl,
                        !.steps = << SetOptional(base.steps[1], "imageUrl", simg) >>]
  IN [type |-> "object", fields |-> SetOptional(o, "imageUrl", img)]

Candidates ==
  {Candidate(base, sv, ttl, img, simg) :
     base \in {ValidRecipeFields, FullRecipeFields}, sv \in CandidateServings,
     ttl \in CandidateTitles, img \in CandidateImages, simg \in CandidateStepImages}

NotRun == [ran |-> FALSE, ok |-> FALSE, value |-> Undefined]

Ran(result) == [ran |-> TRUE, ok |-> result.ok, value |-> result.value]

ValidateInputs ==
  {[fn |-> "validate", candidate |-> c, ai |-> NotRun, manual |-> NotRun] :
     c \in Candidates}

\* what the provider can put between the fences: a JSON document, alone or
\* with whitespace around it, or text that is not JSON (prose, a truncated
\* document, two documents, nothing)
InnerTexts ==
  {<<d>> : d \in Documents}
    \cup {<<"\n", "{valid}", " ">>, <<"not", " ", "json", " ", "at", " ", "all">>,
          <<"{valid">>, <<"{valid}", "{valid}">>, <<>>}

\* the language tags of a fence: json, none, another one
FenceTags == {<<"json">>, <<>>, <<"js">>}

Leading == {<<>>, <<" ">>}

Trailing == {<<>>, <<"\n">>}

Fenced(tag, t) == <<Fence>> \o tag \o <<"\n">> \o t \o <<"\n", Fence>>

NotExtracted == [ran |-> FALSE, threw |-> FALSE, message |-> <<>>, value |-> Undefined]

ExtractInput(wrap, tag, t, text) ==
  [fn |-> "extract", wrap |-> wrap, tag |-> tag, inner |-> t, text |-> text,
   out |-> NotExtracted, checked |-> NotRun]

ExtractInputs ==
  {ExtractInput("fenced", tag, t, pre \o Fenced(tag, t) \o post) :
     tag \in FenceTags, t \in InnerTexts, pre \in Leading, post \in Trailing}
    \cup {ExtractInput("plain", <<>>, t, pre \o t \o post) :
            t \in InnerTexts, pre \in Leading, post \in Trailing}

FunctionInit ==
  /\ server = "listening"
  /\ apiKey = TRUE
  /\ genAI = 0 /\ model = 0 /\ constructs = 0 /\ returned = {}
  /\ store = <<>>
  /\ pc = [r \in Runs |-> "idle"]
  /\ request = [r \in Runs |-> NoRequest]
  /\ user = [r \in Runs |-> NoUser]
  /\ params = [r \in Runs |-> <<>>]
  /\ retryCount = [r \in Runs |-> 0]
  /\ aiRecipeData = [r \in Runs |-> Undefined]
  /\ recipeData = [r \in Runs |-> Undefined]
  /\ responses = [r \in Runs |-> <<>>]
  /\ cancelled = [r \in Runs |-> FALSE]
  /\ obs = [r \in Runs |-> NoObs]
  /\ saved = <<>>
  /\ calls = [c \in Calls |-> NoCall]
  /\ \/ lab \in ValidateInputs
     \/ lab \in ExtractInputs

\* validateAIRecipe(candidate), as the generate handler calls it
ValidateAI ==
  /\ lab.fn = "validate" /\ ~lab.ai.ran
  /\ lab' = [lab EXCEPT !.ai = Ran(validateAIRecipe(lab.candidate))]
  /\ UNCHANGED <<api, server, apiKey, gemini, store, requests>>

\* validate(createRecipeSchema) on the same candidate as the body of
\* POST /api/recipes
ValidateManual ==
  /\ lab.fn = "validate" /\ ~lab.manual.ran
  /\ lab' = [lab EXCEPT !.manual =
                Ran(validate("createRecipeSchema", lab.candidate))]
  /\ UNCHANGED <<api, server, apiKey, gemini, store, requests>>

\* generateRecipe from response.text() on: trim, strip the fences, JSON.parse
Extract ==
  /\ lab.fn = "extract" /\ ~lab.out.ran
  /\ LET res == generateRecipeResult([ok |-> TRUE, text |-> lab.text]) IN
     lab' = [lab EXCEPT !.out = [ran |-> TRUE, threw |-> res.threw,
                                 message |-> res.message, value |-> res.value]]
  /\ UNCHANGED <<api, server, apiKey, gemini, store, requests>>

\* the handler passes what generateRecipe returned to validateAIRecipe
ValidateExtracted ==
  /\ lab.fn = "extract" /\ lab.out.ran /\ ~lab.out.threw /\ ~lab.checked.ran
  /\ lab' = [lab EXCEPT !.checked = Ran(validateAIRecipe(lab.out.value))]
  /\ UNCHANGED <<api, server, apiKey, gemini, store, requests>>

FunctionNext ==
  \/ ValidateAI
  \/ ValidateManual
  \/ Extract
  \/ ValidateExtracted

FunctionSpec == FunctionInit /\ [][FunctionNext]_vars

(***************************************************************************)
(* Properties.                                                             *)
(***************************************************************************)
Exhausted == Response(500, "AI_VALIDATION_FAILED")

ServiceUnavailable == Response(503, "AI_SERVICE_UNAVAILABLE")

\* the handler of run r has started (the request passed both middlewares)
HandlerRan(r) == obs[r].genCalls > 0

FatalShortCircuit ==
  \A r \in Runs :
     (~apiKey /\ HandlerRan(r)) => (obs[r].genCalls = 1 /\ obs[r].delays = 0)

\* C3: with GEMINI_API_KEY missing a run ends with 503 AI_SERVICE_UNAVAILABLE,
\* never with the retries-exhausted error.
ConfigurationErrorSurfaced ==
  \A r \in Runs :
     (~apiKey /\ HandlerRan(r) /\ pc[r] = "done") =>
        responses[r] = << ServiceUnavailable >>

\* what the artifact schema demands of an artifact (spec section 4.4)
SchemaComplete(a) ==
  /\ AIRecipeKeys \subseteq DOMAIN a
  /\ Len(a.title) \in 3..200
  /\ Len(a.description) \in 10..2000
  /\ a.servings \in 1..100
  /\ a.calories \in 0..5000
  /\ a.difficulty \in {"Easy", "Medium", "Hard"}
  /\ Len(a.ingredients) >= 1
  /\ Len(a.steps) >= 1
  /\ \A i \in DOMAIN a.steps : a.steps[i].number >= 1
  /\ {"protein", "carbs", "fat", "fiber"} \subseteq DOMAIN a.nutrition

\* doc carries artifact a, up to the three keys the handler sets itself
Carries(doc, a) ==
  \A k \in (DOMAIN a) \ {"isGenerated"} : Has(doc, k) /\ doc[k] = a[k]

\* C4: Recipe.create is called only with an artifact that validateAIRecipe
\* returned in the same run, and every stored or returned recipe is such an
\* artifact and is schema-complete.
OnlyValidatedArtifacts ==
  /\ \A r \in Runs :
        /\ obs[r].createCalls > 0 =>
              /\ aiRecipeData[r] \in obs[r].validated
              /\ Carries(recipeData[r], aiRecipeData[r])
              /\ SchemaComplete(recipeData[r])
        /\ \A i \in DOMAIN responses[r] :
              responses[r][i].status = 201 =>
                 /\ SchemaComplete(responses[r][i].recipe)
                 /\ \E a \in obs[r].validated : Carries(responses[r][i].recipe, a)
  /\ \A i \in DOMAIN store : SchemaComplete(store[i])

\* a run that failed once, then validated a candidate, stored and returned it
OnlyValidatedArtifactsWitness ==
  \E r \in Runs :
     /\ retryCount[r] = 1
     /\ responses[r] # <<>>
     /\ responses[r][1].status = 201
     /\ responses[r][1].recipe \in {store[i] : i \in DOMAIN store}

\* C5: a run sends exactly one response, when it ends; a failed attempt that
\* is retried sends none; a run validates at most one artifact and calls
\* Recipe.create at most once.
SingleOutcome ==
  \A r \in Runs :
     /\ Len(responses[r]) <= 1
     /\ (pc[r] = "done") <=> (Len(responses[r]) = 1)
     /\ Cardinality(obs[r].validated) <= 1
     /\ obs[r].createCalls <= 1

\* a run waiting to retry after a failed attempt, with nothing sent
SingleOutcomeWitness ==
  \E r \in Runs : pc[r] = "delay" /\ retryCount[r] = 1 /\ responses[r] = <<>>

\* C6: under fairness every run that has started reaches its terminal state
\* and has sent its response.
EventuallyResponds ==
  \A r \in Runs : (pc[r] # "idle") ~> (pc[r] = "done" /\ Len(responses[r]) = 1)

\* a run that went through a retry delay and a persistence call and ended
EventuallyRespondsWitness ==
  \E r \in Runs :
     /\ pc[r] = "done"
     /\ obs[r].delays = 1
     /\ obs[r].createCalls = 1
     /\ Len(responses[r]) = 1

\* C7: once the client has aborted the request, the run calls generateRecipe
\* no more.
NoAttemptAfterCancel ==
  \A r \in Runs : obs[r].callsAfterCancel = 0

\* the header carries a token Firebase verifies
GenuineBearer(h) == h.scheme = "Bearer " /\ h.token = "token-alice"

\* the body is one recipeGenerationSchema accepts
BodyConforms(b) == ("servings" \in DOMAIN b) => b.servings \in 1..20

\* C8: the provider is called and a recipe persisted only for a request whose
\* token was verified and whose body then passed recipeGenerationSchema; a
\* request failing either step gets 401 or 400 and the handler never runs.
AuthenticateThenValidate ==
  \A r \in Runs :
     /\ (HandlerRan(r) \/ obs[r].createCalls > 0 \/ pc[r] \in {"generateContent", "delay", "create"}) =>
           /\ GenuineBearer(request[r].authorization)
           /\ BodyConforms(request[r].body)
           /\ user[r] = "alice"
     /\ (params[r] # <<>> \/ pc[r] = "validate") => user[r] = "alice"
     /\ \A i \in DOMAIN responses[r] : responses[r][i].status = 400 => user[r] = "alice"
     /\ (pc[r] = "done" /\ ~GenuineBearer(request[r].authorization)) =>
           (responses[r][1].status = 401 /\ ~HandlerRan(r) /\ obs[r].createCalls = 0)
     /\ (pc[r] = "done" /\ ~BodyConforms(request[r].body)) =>
           (responses[r][1].status \in {400, 401} /\ ~HandlerRan(r) /\ obs[r].createCalls = 0)

\* one run rejected with 400 after its token was verified, another past both
\* middlewares with its recipe persisted
AuthenticateThenValidateWitness ==
  \E r, s \in Runs :
     /\ responses[r] = << Response(400, "VALIDATION_ERROR") >>
     /\ user[r] = "alice"
     /\ obs[s].providerCalls > 0
     /\ Len(store) = 1

\* C9: the client and the model handle are constructed at most once, and
\* every call of initializeGemini returns that one handle.
SingleClient ==
  /\ constructs <= 1
  /\ Cardinality(returned) <= 1
  /\ genAI # 0 => (genAI = 1 /\ model = 1 /\ returned = {1})

\* two runs with their first provider calls in flight at the same time
SingleClientWitness ==
  \E r, s \in Runs :
     /\ r # s
     /\ pc[r] = "generateContent" /\ obs[r].genCalls = 1
     /\ pc[s] = "generateContent" /\ obs[s].genCalls = 1
     /\ constructs = 1

\* the state of one run
RunState(r) ==
  <<pc[r], retryCount[r], aiRecipeData[r], recipeData[r], responses[r], obs[r],
    user[r], params[r]>>

\* C10: a step changes the state of at most one run, each run makes at most
\* 2 provider calls, and a run waiting on its delay or on the provider leaves
\* every other unfinished run able to step.
RunsIndependent ==
  /\ [][\A r, s \in Runs :
          r # s => (RunState(r)' = RunState(r) \/ RunState(s)' = RunState(s))]_vars
  /\ [](\A r, s \in Runs :
          (r # s /\ pc[r] \in {"generateContent", "delay"}) =>
             /\ obs[s].providerCalls <= 2
             /\ (pc[s] \notin {"idle", "done"} => ENABLED RunStep(s)))

\* one run waiting to retry while another has its first call in flight
RunsIndependentWitness ==
  \E r, s \in Runs :
     /\ pc[r] = "delay" /\ retryCount[r] = 1
     /\ pc[s] = "generateContent" /\ retryCount[s] = 0

GenerationError == Response(500, "GENERATION_ERROR")

\* C11: when Recipe.create fails after a candidate was validated, the run ends
\* with 500 GENERATION_ERROR; once Recipe.create has been called the run calls
\* neither the provider nor Recipe.create again.
PersistenceFailureSurfaced ==
  /\ [](\A r \in Runs :
          (pc[r] = "done" /\ obs[r].createCalls > 0 /\ responses[r][1].status # 201) =>
             (responses[r] = << GenerationError >> /\ obs[r].createCalls = 1))
  /\ [][\A r \in Runs :
          obs[r].createCalls > 0 =>
             /\ obs'[r].genCalls = obs[r].genCalls
             /\ obs'[r].providerCalls = obs[r].providerCalls
             /\ obs'[r].createCalls = obs[r].createCalls
             /\ retryCount'[r] = retryCount[r]]_vars

\* a run whose validated candidate could not be stored
PersistenceFailureSurfacedWitness ==
  \E r \in Runs :
     /\ pc[r] = "done"
     /\ obs[r].validated # {}
     /\ obs[r].createCalls = 1
     /\ responses[r] = << GenerationError >>
     /\ store = <<>>

BothValidated == lab.fn = "validate" /\ lab.ai.ran /\ lab.manual.ran

EmptyOrUrl(o, k) == Has(o, k) => o[k] \in Urls \cup {""}

UrlsWellFormed(o) ==
  /\ EmptyOrUrl(o, "imageUrl")
  /\ EmptyOrUrl(o, "videoUrl")
  /\ \A i \in DOMAIN o.steps : EmptyOrUrl(o.steps[i], "imageUrl")

\* C12 as stated: validateAIRecipe and the validator of POST /api/recipes
\* give the same verdict and the same normalised artifact for every candidate.
ValidatorsIdentical ==
  BothValidated => (lab.ai.ok = lab.manual.ok /\ lab.ai.value = lab.manual.value)

\* C12, amended: the two validators are different schemas.  Whatever
\* createRecipeSchema accepts aiRecipeSchema accepts; they give the same
\* verdict when imageUrl, videoUrl and the steps' imageUrl are absent, empty
\* or URLs; when both accept, the artifacts agree on description, times,
\* servings, calories, difficulty and ingredients, the title of the one is the
\* trimmed title of the other, and a missing cuisine is "International" in
\* the AI artifact and left out of the other.
ValidatorsAgreeOnWellFormed ==
  BothValidated =>
     LET o == lab.candidate.fields IN
     /\ lab.manual.ok => lab.ai.ok
     /\ UrlsWellFormed(o) => (lab.ai.ok = lab.manual.ok)
     /\ (lab.ai.ok /\ lab.manual.ok) =>
          /\ \A k \in {"description", "prepTime", "cookTime", "servings", "calories",
                        "difficulty", "ingredients"} :
                lab.ai.value[k] = lab.manual.value[k]
          /\ lab.manual.value.title = TrimString(lab.ai.value.title)
          /\ ~Has(o, "cuisine") =>
                (lab.ai.value.cuisine = "International" /\ ~Has(lab.manual.value, "cuisine"))

\* a candidate with an empty imageUrl and no cuisine that both validators accept
ValidatorsAgreeOnWellFormedWitness ==
  /\ BothValidated /\ lab.ai.ok /\ lab.manual.ok
  /\ Has(lab.candidate.fields, "imageUrl") /\ lab.candidate.fields.imageUrl = ""
  /\ ~Has(lab.candidate.fields, "cuisine")
  /\ lab.candidate.fields.title = " Lentil Soup "

AIAccepted == lab.fn = "validate" /\ lab.ai.ran /\ lab.ai.ok

IngredientKeys == {"amount", "item", "id"}

StepKeys == {"number", "title", "description", "tip", "duration", "imageUrl"}

\* C13 as stated: in the artifact validateAIRecipe returns every field of the
\* schema is defined, the optional fields of nutrition, ingredients and steps
\* included.
AllFieldsDefined ==
  AIAccepted =>
     LET v == lab.ai.value IN
     /\ AIRecipeKeys \subseteq DOMAIN v
     /\ NutritionKeys \subseteq DOMAIN v.nutrition
     /\ \A i \in DOMAIN v.ingredients : IngredientKeys \subseteq DOMAIN v.ingredients[i]
     /\ \A i \in DOMAIN v.steps : StepKeys \subseteq DOMAIN v.steps[i]

DocumentedDefaults ==
  [subtitle |-> "", tags |-> <<>>, cuisine |-> "International", imageUrl |-> "",
   dressingIngredients |-> <<>>, shoppingList |-> <<>>, youtubeId |-> "",
   videoUrl |-> "", isGenerated |-> TRUE]

\* C13, amended: in the artifact validateAIRecipe returns every top-level
\* field of the schema and nutrition.sodium and nutrition.sugar are defined, a
\* missing one holding its default; the optional fields that have no default
\* (nutrition.saturatedFat and cholesterol, an ingredient's id, a step's tip,
\* duration and imageUrl) are present exactly when the candidate has them.
DefaultedFieldsDefined ==
  AIAccepted =>
     LET v == lab.ai.value
         o == lab.candidate.fields
     IN
     /\ AIRecipeKeys \subseteq DOMAIN v
     /\ \A k \in DOMAIN DocumentedDefaults :
           v[k] = IF Has(o, k) THEN o[k] ELSE DocumentedDefaults[k]
     /\ v.nutrition.sodium = IF Has(o.nutrition, "sodium") THEN o.nutrition.sodium ELSE "0mg"
     /\ v.nutrition.sugar = IF Has(o.nutrition, "sugar") THEN o.nutrition.sugar ELSE "0g"
     /\ \A k \in {"saturatedFat", "cholesterol"} :
           Has(v.nutrition, k) <=> Has(o.nutrition, k)
     /\ \A i \in DOMAIN v.ingredients :
           Has(v.ingredients[i], "id") <=> Has(o.ingredients[i], "id")
     /\ \A i \in DOMAIN v.steps :
           \A k \in {"tip", "duration", "imageUrl"} :
              Has(v.steps[i], k) <=> Has(o.steps[i], k)

\* an accepted candidate without cuisine, sodium, saturatedFat and step tip
DefaultedFieldsDefinedWitness ==
  /\ AIAccepted
  /\ ~Has(lab.candidate.fields, "cuisine")
  /\ ~Has(lab.candidate.fields.nutrition, "sodium")
  /\ ~Has(lab.candidate.fields.nutrition, "saturatedFat")
  /\ ~Has(lab.candidate.fields.steps[1], "tip")
  /\ lab.ai.value.cuisine = "International"

\* servings an integer in 1..100 and calories an integer in 0..5000
WithinLimits(d) ==
  LET f == DocValue(d).fields IN
  /\ 1 <= f.servings /\ f.servings <= 100
  /\ 0 <= f.calories /\ f.calories <= 5000

\* C14: a candidate whose other fields are valid is accepted (the run goes on
\* to Recipe.create with it, the retry count unchanged) exactly when servings
\* is in 1..100 and calories in 0..5000; a rejected one adds exactly one to
\* the retry count of its run and nothing is stored for it.
LimitsDecideAcceptance ==
  [][\A r \in Runs : \A d \in LimitDocuments :
        GenerateContentSettles(r, LimitOutcome(d)) =>
           IF WithinLimits(d)
           THEN /\ pc'[r] = "create"
                /\ retryCount'[r] = retryCount[r]
                /\ aiRecipeData'[r].servings = DocValue(d).fields.servings
                /\ aiRecipeData'[r].calories = DocValue(d).fields.calories
           ELSE /\ pc'[r] \in {"delay", "done"}
                /\ retryCount'[r] = retryCount[r] + 1
                /\ obs'[r].createCalls = obs[r].createCalls
                /\ obs'[r].validated = obs[r].validated]_vars

\* a run that saw servings 101 rejected and then servings 100 accepted
LimitsDecideAcceptanceWitness ==
  \E r \in Runs :
     /\ pc[r] = "create" /\ retryCount[r] = 1
     /\ aiRecipeData[r].servings = 100

Extracted == lab.fn = "extract" /\ lab.out.ran

\* the extraction gave what JSON.parse gives for t
SameAsParsing(t) ==
  LET direct == JSONParse(t) IN
  /\ lab.out.threw = ~direct.ok
  /\ lab.out.value = direct.value

\* C15: for a provider text that is, after trimming, a fenced block with any
\* language tag or none, the extraction gives what parsing the inner content
\* gives.
FencedEqualsInner ==
  (Extracted /\ lab.wrap = "fenced") => SameAsParsing(lab.inner)

\* t is not one JSON document: prose, a truncated document, nothing
Malformed(t) == ~\E d \in Documents : Trim(t) = <<d>>

\* t is one JSON document whose value is not an object
NonObject(t) == \E d \in Documents : Trim(t) = <<d>> /\ DocValue(d).type # "object"

\* C16 as stated: the extraction fails with "AI returned invalid JSON format"
\* for every text that is malformed, truncated or parses to a non-object
\* value, and nothing of such a text is passed to the validator.
InvalidFormatForNonObjects ==
  (Extracted /\ (Malformed(lab.inner) \/ NonObject(lab.inner))) =>
     /\ lab.out.threw /\ lab.out.message = InvalidJSONMessage
     /\ ~lab.checked.ran

\* C16, amended: the extraction fails with "AI returned invalid JSON format"
\* for every text that is malformed or truncated, and a failed extraction
\* passes nothing to the validator; a text that parses to a non-object value
\* (null, a number) is no extraction failure: the value is returned and
\* passed to validateAIRecipe, which rejects it.
InvalidFormatForMalformed ==
  Extracted =>
     /\ Malformed(lab.inner) => lab.out.threw
     /\ lab.out.threw => (lab.out.message = InvalidJSONMessage /\ ~lab.checked.ran)
     /\ (NonObject(lab.inner) /\ lab.tag # <<"js">>) =>
          /\ ~lab.out.threw
          /\ lab.out.value = JSONParse(lab.inner).value
          /\ lab.checked.ran => ~lab.checked.ok

\* null between json fences, returned by the extraction and rejected by the
\* validator
InvalidFormatForMalformedWitness ==
  /\ Extracted /\ lab.inner = <<"null">> /\ lab.tag = <<"json">>
  /\ lab.checked.ran /\ ~lab.checked.ok

\* C17: a JSON text wrapped in a json fence, with or without whitespace around
\* the block, extracts to the value parsing it directly gives; so does the
\* text left unwrapped.
JsonFenceRoundTrip ==
  (Extracted /\ ~Malformed(lab.inner) /\ (lab.wrap = "plain" \/ lab.tag = <<"json">>)) =>
     /\ ~lab.out.threw
     /\ lab.out.value = JSONParse(lab.inner).value

\* the well-formed recipe between json fences, whitespace before the block
JsonFenceRoundTripWitness ==
  /\ Extracted /\ lab.wrap = "fenced" /\ lab.tag = <<"json">>
  /\ lab.inner = <<"{valid}">> /\ lab.text[1] = " "
  /\ lab.out.value = DocValue("{valid}")

StrictQualifier == "STRICT ALLERGIES (must avoid): "

\* the prompt has a line with the strict qualifier and every allergy term
AllergyLinePresent(prompt, allergies) ==
  \E i \in DOMAIN prompt :
     /\ \E j \in DOMAIN prompt[i] : prompt[i][j] = StrictQualifier
     /\ \A k \in DOMAIN allergies : \E j \in DOMAIN prompt[i] : prompt[i][j] = allergies[k]

\* C19: when the request names allergies, every attempt of the run sends a
\* prompt, and each prompt sent has a line that carries the strict must-avoid
\* qualifier and every allergy term of the request.
AllergiesOnEveryPrompt ==
  \A r \in Runs :
     LET b == request[r].body IN
     (Has(b, "allergies") /\ Len(b.allergies) > 0) =>
        /\ Len(PromptsSent(r)) = obs[r].providerCalls
        /\ \A i \in DOMAIN PromptsSent(r) : AllergyLinePresent(PromptsSent(r)[i], b.allergies)

\* a run with three allergies on its second attempt
AllergiesOnEveryPromptWitness ==
  \E r \in Runs :
     /\ Has(request[r].body, "allergies") /\ Len(request[r].body.allergies) = 3
     /\ Has(request[r].body, "excludeIngredients")
     /\ pc[r] = "generateContent" /\ Len(PromptsSent(r)) = 2

\* C20: with GEMINI_API_KEY missing the server does not start: startServer
\* never reaches app.listen.
StartupRequiresKey == ~apiKey => server # "listening"

ProseOutcome == [ok |-> TRUE, text |-> <<"not", " ", "json", " ", "at", " ", "all">>]

\* C21: a run that ends on an attempt for which the provider returned text that
\* is not JSON answers 500 AI_INVALID_RESPONSE.
InvalidJsonReported ==
  [][\A r \in Runs :
        (GenerateContentSettles(r, ProseOutcome) /\ pc'[r] = "done") =>
           responses'[r] = << Response(500, "AI_INVALID_RESPONSE") >>]_vars

IsOwner(recipe, uid) == Has(recipe, "userId") /\ recipe.userId = uid

SameOwner(before, after) ==
  /\ Has(before, "userId") <=> Has(after, "userId")
  /\ Has(before, "userId") => after.userId = before.userId

\* C30: a recipe created through POST / or /generate is stored with the uid of
\* the caller who created it, and no later request changes the userId of a
\* stored recipe, whatever the body of an update holds.
UserIdNeverChanges ==
  [][/\ \A i \in DOMAIN store :
           (Live(store, i) /\ Live(store', i)) => SameOwner(store[i], store'[i])
     /\ \A c \in OneCall :
           RecipeCreateResolves(c) => store'[Len(store')].userId = calls[c].uid
     /\ CreateResolves(1) => store'[Len(store')].userId = user[1]]_vars

\* a recipe created by alice has been renamed by her update whose body carried
\* userId bob, and is still hers
UserIdNeverChangesWitness ==
  \E i \in DOMAIN store :
     /\ Live(store, i)
     /\ store[i].title = "Hijacked Soup"
     /\ IsOwner(store[i], "alice")

LiveEntries(uid) == {i \in DOMAIN saved : ~Has(saved[i], "deleted") /\ saved[i].userId = uid}

\* C23: a saved-recipe request of a caller changes, adds and returns only
\* entries whose userId is the caller's uid; an update or unsave of a recipe
\* the caller has not saved is answered 404 even if another user has saved it.
SavedScopedToCaller ==
  [][\A c \in OneCall :
        /\ \A i \in DOMAIN saved :
              saved'[i] # saved[i] => saved[i].userId = calls[c].uid
        /\ Len(saved') > Len(saved) => saved'[Len(saved')].userId = calls[c].uid
        /\ SavedFindResolves(c) =>
              \A i \in DOMAIN calls'[c].response.recipe :
                 calls'[c].response.recipe[i].userId = calls[c].uid
        /\ ((SavedFindOneAndDeleteResolves(c)
               \/ (SavedFindOneResolves(c) /\ calls[c].op = "updateSaved"))
              /\ \A i \in LiveEntries(calls[c].uid) : saved[i].recipeId # calls[c].id) =>
              (calls'[c].response = Response(404, "NOT_FOUND") /\ saved' = saved)]_vars

\* alice and bob have both saved the recipe and a listing has returned one entry
SavedScopedToCallerWitness ==
  /\ LiveEntries("alice") # {}
  /\ LiveEntries("bob") # {}
  /\ calls[1].response # Undefined
  /\ calls[1].response.code = "FETCHED"
  /\ Len(calls[1].response.recipe) = 1

SamePair(a, b) == a.userId = b.userId /\ a.recipeId = b.recipeId

\* C24: under every interleaving of save requests the collection holds at most
\* one entry for a (userId, recipeId) pair, and a save request whose lookup or
\* insert finds the pair present adds nothing and is answered 409 ALREADY_SAVED.
NoDuplicateSave ==
  [][/\ \A i, j \in DOMAIN saved' :
           (~Has(saved'[i], "deleted") /\ ~Has(saved'[j], "deleted")
              /\ SamePair(saved'[i], saved'[j])) => i = j
     /\ \A c \in Calls :
           ((SavedCreateSettles(c) \/ (SavedFindOneResolves(c) /\ calls[c].op = "save"))
              /\ DuplicateKey(saved, calls[c].uid, calls[c].id)) =>
              (calls'[c].response = Response(409, "ALREADY_SAVED") /\ saved' = saved)]_vars

\* a save request has passed its lookup and is about to insert a pair that
\* a concurrent request has inserted in the meantime
NoDuplicateSaveWitness ==
  \E c \in Calls : calls[c].pc = "create" /\ DuplicateKey(saved, calls[c].uid, calls[c].id)

\* C25: a run starts an attempt after the first only from its delay, with one
\* delay taken for each failed attempt so far; while a provider call is in
\* flight it is the only one not yet failed; the failure that uses up the
\* budget takes no delay and sends the response in the same step.
AttemptsSequential ==
  [][\A r \in Runs :
        /\ obs'[r].genCalls > obs[r].genCalls =>
              \/ obs[r].genCalls = 0
              \/ /\ pc[r] = "delay"
                 /\ obs[r].delays = obs[r].genCalls
                 /\ retryCount[r] = obs[r].genCalls
        /\ pc'[r] = "generateContent" => obs'[r].providerCalls = retryCount'[r] + 1
        /\ (retryCount'[r] > retryCount[r] /\ retryCount'[r] >= maxRetries) =>
              /\ pc'[r] = "done"
              /\ obs'[r].delays = obs[r].delays
              /\ Len(responses'[r]) = Len(responses[r]) + 1]_vars

\* a run has failed twice with one delay between its two provider calls
AttemptsSequentialWitness ==
  \E r \in Runs :
     /\ pc[r] = "done"
     /\ retryCount[r] = maxRetries
     /\ obs[r].providerCalls = 2
     /\ obs[r].delays = 1

ConfigurationWords ==
  {"temperature", "topK", "topP", "maxOutputTokens"}
    \cup {generationConfig.temperature, generationConfig.topP,
          ToString(generationConfig.topK), ToString(generationConfig.maxOutputTokens)}

\* C26: the attempts of a run are made with the same constraints and so the
\* same prompt; every model handle a call can use carries temperature 0.7,
\* topK 40, topP 0.95 and maxOutputTokens 8192, and there is one handle; no
\* piece of a prompt is a configuration key or value.
SamePromptAndConfiguration ==
  \A r \in Runs :
     /\ \A i \in DOMAIN obs[r].sent :
           /\ obs[r].sent[i] = params[r]
           /\ PromptsSent(r)[i] = PromptsSent(r)[1]
           /\ \A l \in DOMAIN PromptsSent(r)[i] : \A j \in DOMAIN PromptsSent(r)[i][l] :
                 PromptsSent(r)[i][l][j] \notin ConfigurationWords
     /\ Cardinality(returned) <= 1
     /\ \A h \in returned :
           getGenerativeModel(h).generationConfig =
              [temperature |-> "0.7", topK |-> 40, topP |-> "0.95", maxOutputTokens |-> 8192]

\* a run with allergies and a prep-time limit is on its second attempt
SamePromptAndConfigurationWitness ==
  \E r \in Runs :
     /\ Len(obs[r].sent) = 2
     /\ Has(params[r], "allergies") /\ Has(params[r], "maxPrepTime")
     /\ pc[r] = "generateContent"
     /\ returned # {}

ServerSetKeys == {"userId", "isGenerated", "generationParams"}

Candidate2(outcome) == validateAIRecipe(generateRecipeResult(outcome).value)

\* C27: when the second attempt of a run yields a candidate that passes
\* validation, the run goes on to Recipe.create with that candidate and sends
\* nothing yet; when Recipe.create resolves, the document stored and returned
\* with 201 carries every field of that candidate apart from the three the
\* handler sets itself; from the validation on the run makes no provider call.
SecondAttemptSucceeds ==
  [][\A r \in Runs :
        /\ \A outcome \in ProviderOutcomes :
              (GenerateContentSettles(r, outcome) /\ retryCount[r] = 1
                 /\ ~generateRecipeResult(outcome).threw /\ Candidate2(outcome).ok) =>
                 /\ pc'[r] = "create"
                 /\ aiRecipeData'[r] = Candidate2(outcome).value
                 /\ responses'[r] = <<>>
        /\ (CreateResolves(r) /\ retryCount[r] = 1) =>
              /\ pc'[r] = "done"
              /\ Len(store') = Len(store) + 1
              /\ \A k \in (DOMAIN aiRecipeData[r]) \ ServerSetKeys :
                    store'[Len(store')][k] = aiRecipeData[r][k]
              /\ responses'[r] =
                    << [status |-> 201, code |-> "CREATED", recipe |-> store'[Len(store')]] >>
        /\ pc[r] \in {"create", "done"} => obs'[r].providerCalls = obs[r].providerCalls]_vars

\* a run whose first attempt failed has stored a recipe
SecondAttemptSucceedsWitness ==
  \E r \in Runs :
     /\ pc[r] = "done"
     /\ retryCount[r] = 1
     /\ obs[r].providerCalls = 2
     /\ Len(responses[r]) = 1 /\ responses[r][1].status = 201

\* C28: the document a generate run stores has the uid of the verified caller
\* as userId, isGenerated true and the validated request constraints of the
\* run as generationParams, whatever the candidate holds under those keys.
ServerFieldsOverride ==
  [][\A r \in Runs :
        CreateResolves(r) =>
           LET doc == store'[Len(store')] IN
           /\ Len(store') = Len(store) + 1
           /\ doc.userId = user[r] /\ user[r] = DecodedUid(request[r].authorization.token)
           /\ doc.isGenerated = TRUE
           /\ doc.generationParams = params[r]
           /\ params[r] = recipeGenerationSchemaParse(request[r].body)]_vars

\* a recipe is stored for alice from a provider text that names another
\* userId and says isGenerated false
ServerFieldsOverrideWitness ==
  /\ ValidRecipeFields.userId # "alice"
  /\ ValidRecipeFields.isGenerated = FALSE
  /\ \E r \in Runs :
        /\ pc[r] = "done"
        /\ aiRecipeData[r] # Undefined
        /\ Has(aiRecipeData[r], "isGenerated") /\ aiRecipeData[r].isGenerated = FALSE
        /\ \E i \in DOMAIN store : store[i].userId = "alice" /\ store[i].isGenerated

Succeeded(resps) == \E i \in DOMAIN resps : resps[i].status = 201

\* C29: the step in which a run sends an error response leaves the store as
\* it was; a run none of whose attempts produced a validated candidate has
\* not called Recipe.create; the store holds one document for each run that
\* answered 201 and nothing else.
ErrorLeavesStoreUnchanged ==
  [][/\ \A r \in Runs :
           /\ (Len(responses'[r]) > Len(responses[r])
                 /\ responses'[r][Len(responses'[r])].status # 201) => store' = store
           /\ obs'[r].validated = {} => obs'[r].createCalls = 0
     /\ Len(store') = Cardinality({r \in Runs : Succeeded(responses'[r])})]_vars

\* one run is exhausted, another has met a persistence failure, nothing is stored
ErrorLeavesStoreUnchangedWitness ==
  /\ store = <<>>
  /\ \E r \in Runs :
        /\ pc[r] = "done"
        /\ responses[r] = << Response(500, "AI_VALIDATION_FAILED") >>
        /\ obs[r].providerCalls = 2
  /\ \E r \in Runs :
        /\ pc[r] = "done"
        /\ responses[r] = << Response(500, "GENERATION_ERROR") >>
        /\ obs[r].createCalls = 1

====
